---------------------------- MODULE Spec2Model ----------------------------
(***************************************************************************)
(* Extraction coordination engine of the Moobot song-request scraper:      *)
(* the title-matching service, the Table-Row strategy with its URL         *)
(* resolution cascade, the four strategies' extract_songs fault handling   *)
(* and the coordinator's merge step.                                       *)
(*                                                                         *)
(* Text is modelled as a sequence of one-character strings, so that the    *)
(* string functions of the source (lower, strip, endswith, "in", split,    *)
(* re.sub, quote_plus) are computed rather than assumed.                   *)
(***************************************************************************)
EXTENDS Integers, Sequences, FiniteSets, TLC

(***************************************************************************)
(* Python str primitives                                                   *)
(***************************************************************************)
\* Python None, kept apart from every str (a str is a tuple of characters)
NoneVal == <<"None">>

UpperLetters == {"A","B","C","D","E","F","G","H","I","J","K","L","M",
                 "N","O","P","Q","R","S","T","U","V","W","X","Y","Z"}

LowerLetters == {"a","b","c","d","e","f","g","h","i","j","k","l","m",
                 "n","o","p","q","r","s","t","u","v","w","x","y","z"}

Digits == {"0","1","2","3","4","5","6","7","8","9"}

UpperToLower ==
  ("A" :> "a") @@ ("B" :> "b") @@ ("C" :> "c") @@ ("D" :> "d") @@ ("E" :> "e") @@
  ("F" :> "f") @@ ("G" :> "g") @@ ("H" :> "h") @@ ("I" :> "i") @@ ("J" :> "j") @@
  ("K" :> "k") @@ ("L" :> "l") @@ ("M" :> "m") @@ ("N" :> "n") @@ ("O" :> "o") @@
  ("P" :> "p") @@ ("Q" :> "q") @@ ("R" :> "r") @@ ("S" :> "s") @@ ("T" :> "t") @@
  ("U" :> "u") @@ ("V" :> "v") @@ ("W" :> "w") @@ ("X" :> "x") @@ ("Y" :> "y") @@
  ("Z" :> "z")

\* Unicode code points of the characters that survive normalize_title
\* (space, digits, backslash, a-z): Python compares str by code point.
Ord ==
  (" " :> 32) @@ ("0" :> 48) @@ ("1" :> 49) @@ ("2" :> 50) @@ ("3" :> 51) @@
  ("4" :> 52) @@ ("5" :> 53) @@ ("6" :> 54) @@ ("7" :> 55) @@ ("8" :> 56) @@
  ("9" :> 57) @@ ("\\" :> 92) @@
  ("a" :> 97) @@ ("b" :> 98) @@ ("c" :> 99) @@ ("d" :> 100) @@ ("e" :> 101) @@
  ("f" :> 102) @@ ("g" :> 103) @@ ("h" :> 104) @@ ("i" :> 105) @@ ("j" :> 106) @@
  ("k" :> 107) @@ ("l" :> 108) @@ ("m" :> 109) @@ ("n" :> 110) @@ ("o" :> 111) @@
  ("p" :> 112) @@ ("q" :> 113) @@ ("r" :> 114) @@ ("s" :> 115) @@ ("t" :> 116) @@
  ("u" :> 117) @@ ("v" :> 118) @@ ("w" :> 119) @@ ("x" :> 120) @@ ("y" :> 121) @@
  ("z" :> 122)

\* str.lower()
Lower(s) == [i \in 1..Len(s) |-> IF s[i] \in UpperLetters THEN UpperToLower[s[i]] ELSE s[i]]

IsSpace(c) == c = " "

\* s[a:b] with 1-based inclusive bounds, empty when a > b
Slice(s, a, b) == IF a > b THEN <<>> ELSE SubSeq(s, a, b)

RECURSIVE LStrip(_)
LStrip(s) == IF s # <<>> /\ IsSpace(Head(s)) THEN LStrip(Tail(s)) ELSE s

RECURSIVE RStrip(_)
RStrip(s) == IF s # <<>> /\ IsSpace(s[Len(s)]) THEN RStrip(SubSeq(s, 1, Len(s) - 1)) ELSE s

\* str.strip()
Strip(s) == RStrip(LStrip(s))

\* str.startswith / str.endswith
StartsWith(s, p) == Len(p) <= Len(s) /\ SubSeq(s, 1, Len(p)) = p

EndsWith(s, p) == Len(p) <= Len(s) /\ SubSeq(s, Len(s) - Len(p) + 1, Len(s)) = p

\* the substring p occurs in s at position i
MatchAt(s, p, i) == i + Len(p) - 1 <= Len(s) /\ SubSeq(s, i, i + Len(p) - 1) = p

\* Python "p in s"
Contains(s, p) == \E i \in 1..(Len(s) + 1) : MatchAt(s, p, i)

\* str.split(): the whitespace-separated words of s
RECURSIVE Split(_)
Split(s) ==
  LET t == LStrip(s)
  IN IF t = <<>> THEN <<>>
     ELSE LET stops == {i \in 1..Len(t) : IsSpace(t[i])}
              e == IF stops = {} THEN Len(t) + 1
                   ELSE CHOOSE i \in stops : \A j \in stops : i <= j
          IN <<SubSeq(t, 1, e - 1)>> \o Split(Slice(t, e, Len(t)))

\* " ".join(words)
RECURSIVE Join(_)
Join(ws) ==
  IF ws = <<>> THEN <<>>
  ELSE IF Len(ws) = 1 THEN ws[1]
  ELSE ws[1] \o <<" ">> \o Join(Tail(ws))

\* a < b on str (lexicographic by code point); used on normalized text only
RECURSIVE StrLess(_, _)
StrLess(a, b) ==
  IF b = <<>> THEN FALSE
  ELSE IF a = <<>> THEN TRUE
  ELSE IF Head(a) = Head(b) THEN StrLess(Tail(a), Tail(b))
  ELSE Ord[Head(a)] < Ord[Head(b)]

\* Python min(a, b): b only when b < a
StrMin(a, b) == IF StrLess(b, a) THEN b ELSE a

Range(f) == {f[i] : i \in DOMAIN f}

(***************************************************************************)
(* SongMatchingService                                                     *)
(***************************************************************************)
NormalizeSuffixes ==
  << <<" ","(","o","f","f","i","c","i","a","l"," ","v","i","d","e","o",")">>,
     <<" ","(","o","f","f","i","c","i","a","l"," ","a","u","d","i","o",")">>,
     <<" ","(","o","f","f","i","c","i","a","l",")">>,
     <<" ","(","l","y","r","i","c","s",")">>,
     <<" ","m","/","v">>,
     <<" ","|"," ","l","y","r","i","c","s">> >>

\* the first suffix of the list that s ends with is cut off, then strip()
RECURSIVE StripFirstSuffix(_, _)
StripFirstSuffix(s, sufs) ==
  IF sufs = <<>> THEN s
  ELSE IF EndsWith(s, Head(sufs)) THEN Strip(SubSeq(s, 1, Len(s) - Len(Head(sufs))))
  ELSE StripFirstSuffix(s, Tail(sufs))

\* variant: no character is replaced
KeepChar_All(c) == TRUE

\* re.sub(r'[^a-z0-9\\s]', ' ', title): the class is written in a raw string,
\* so it excludes a-z, 0-9 and the backslash (and "s", already in a-z).
KeepChar(c) == c \in LowerLetters \/ c \in Digits \/ c = "\\"

normalize_title(title) ==
  IF title = <<>> THEN <<>>
  ELSE LET t1 == Strip(Lower(title))
           t2 == StripFirstSuffix(t1, NormalizeSuffixes)
           t3 == [i \in 1..Len(t2) |-> IF KeepChar(t2[i]) THEN t2[i] ELSE " "]
       IN Join(Split(t3))

JaccardNum == 7

JaccardDen == 10

MinContainLen == 10

\* variant: a word overlap of exactly 7/10 is enough
titles_match_AtLeast(title1, title2) ==
  LET norm1 == normalize_title(title1)
      norm2 == normalize_title(title2)
      words1 == Range(Split(norm1))
      words2 == Range(Split(norm2))
      overlap == Cardinality(words1 \cap words2)
      total_words == Cardinality(words1 \cup words2)
  IN \/ norm1 = norm2
     \/ /\ Contains(norm2, norm1) \/ Contains(norm1, norm2)
        /\ Len(StrMin(norm1, norm2)) > MinContainLen
     \/ /\ words1 # {}
        /\ words2 # {}
        /\ JaccardDen * overlap >= JaccardNum * total_words

titles_match(title1, title2) ==
  LET norm1 == normalize_title(title1)
      norm2 == normalize_title(title2)
      words1 == Range(Split(norm1))
      words2 == Range(Split(norm2))
      overlap == Cardinality(words1 \cap words2)
      total_words == Cardinality(words1 \cup words2)
  IN \/ norm1 = norm2
     \/ /\ Contains(norm2, norm1) \/ Contains(norm1, norm2)
        /\ Len(StrMin(norm1, norm2)) > MinContainLen
     \/ /\ words1 # {}
        /\ words2 # {}
        /\ JaccardDen * overlap > JaccardNum * total_words

songs_match(song1, song2) == titles_match(song1.title, song2.title)

CleanPrefixes ==
  << <<"N","o","w"," ","P","l","a","y","i","n","g",":">>,
     <<"C","u","r","r","e","n","t",":">>,
     <<"P","l","a","y","i","n","g",":">>,
     <<"U+266A">>, <<"U+266B">>, <<"U+1F3B5">>, <<"U+1F3B6">> >>

\* every prefix of the list is tried in order, each on the result of the last
RECURSIVE StripPrefixes(_, _)
StripPrefixes(s, ps) ==
  IF ps = <<>> THEN s
  ELSE IF StartsWith(s, Head(ps))
       THEN StripPrefixes(Strip(Slice(s, Len(Head(ps)) + 1, Len(s))), Tail(ps))
       ELSE StripPrefixes(s, Tail(ps))

clean_song_title(title) ==
  IF title = <<>> THEN <<>>
  ELSE StripPrefixes(Join(Split(title)), CleanPrefixes)

UiIndicators ==
  { <<"c","l","i","c","k">>, <<"b","u","t","t","o","n">>, <<"m","e","n","u">>, <<"l","o","g","i","n">>,
    <<"s","i","g","n">>, <<"r","e","g","i","s","t","e","r">>, <<"h","o","m","e">>, <<"a","b","o","u","t">>,
    <<"c","o","n","t","a","c","t">>, <<"h","e","l","p">>, <<"s","e","t","t","i","n","g","s">>, <<"p","r","o","f","i","l","e">>,
    <<"s","e","a","r","c","h">>, <<"f","i","l","t","e","r">>, <<"s","o","r","t">>, <<"v","i","e","w">>,
    <<"s","h","o","w">>, <<"h","i","d","e">>, <<"n","e","x","t">>, <<"p","r","e","v","i","o","u","s">>,
    <<"b","a","c","k">>, <<"f","o","r","w","a","r","d">>, <<"s","u","b","m","i","t">>, <<"c","a","n","c","e","l">>,
    <<"s","o","n","g"," ","r","e","q","u","e","s","t","s">>, <<"m","o","o","b","o","t">>, <<"r","e","f","r","e","s","h">>, <<"q","u","e","u","e">>,
    <<"l","o","a","d","i","n","g">>, <<"e","r","r","o","r">>, <<"s","o","n","g"," ","q","u","e","u","e">>, <<"s","o","n","g"," ","h","i","s","t","o","r","y">>,
    <<"r","e","q","u","e","s","t","e","d"," ","b","y">>, <<"p","l","a","y","e","d">>, <<"a","g","o">>, <<"b","y"," ">>,
    <<"d","u","r","a","t","i","o","n",":">>, <<"s","t","a","t","u","s",":">>, <<"p","a","g","e"," ">>, <<"p","a","g","e">> }

MaxUiLen == 100

AllDigits(s) == s # <<>> /\ \A i \in 1..Len(s) : s[i] \in Digits

\* re.match(r'^\d{1,2}:\d{2}$', s)
IsClockTime(s) ==
  \E k \in {1, 2} :
    /\ Len(s) = k + 3
    /\ AllDigits(SubSeq(s, 1, k))
    /\ s[k + 1] = ":"
    /\ AllDigits(SubSeq(s, k + 2, k + 3))

HasLetter(s) == \E i \in 1..Len(s) : s[i] \in LowerLetters \cup UpperLetters

\* The "page N" pattern, the search-phrase list except 'youtube', the
\* "... ago" pattern and the single-word list only accept text that contains
\* one of UiIndicators, which has already returned True above them.
is_ui_text(text) ==
  LET text_lower == Strip(Lower(text))
  IN \/ text = <<>>
     \/ Len(text) > MaxUiLen
     \/ \E ind \in UiIndicators : Contains(text_lower, ind)
     \/ AllDigits(text_lower) /\ Len(text_lower) <= 3
     \/ text_lower = <<"y","o","u","t","u","b","e">>
     \/ IsClockTime(Strip(text))
     \/ Len(Strip(text)) < 5 /\ ~HasLetter(text)


(***************************************************************************)
(* URL helpers of TableRowExtractionStrategy                               *)
(***************************************************************************)
\* "youtube.com" in url or "youtu.be" in url
IsYoutubeUrl(u) == Contains(u, <<"y","o","u","t","u","b","e",".","c","o","m">>) \/ Contains(u, <<"y","o","u","t","u",".","b","e">>)

\* a value read from the DOM is truthy and names the video host
Truthy(v) == v # NoneVal /\ v # <<>>

\* urllib.parse.quote_plus: letters, digits and "_.-~" are kept, a space
\* becomes "+", every other character its %XX bytes
Unreserved == LowerLetters \cup UpperLetters \cup Digits \cup {"_", ".", "-", "~"}

PercentCode ==
  ("(" :> <<"%","2","8">>) @@ (")" :> <<"%","2","9">>) @@ (":" :> <<"%","3","A">>) @@
  ("/" :> <<"%","2","F">>) @@ ("|" :> <<"%","7","C">>) @@ ("\\" :> <<"%","5","C">>) @@
  ("?" :> <<"%","3","F">>) @@ ("=" :> <<"%","3","D">>) @@ ("'" :> <<"%","2","7">>) @@
  ("U+266A" :> <<"%","E","2","%","9","9","%","A","A">>) @@ ("U+266B" :> <<"%","E","2","%","9","9","%","A","B">>) @@
  ("U+1F3B5" :> <<"%","F","0","%","9","F","%","8","E","%","B","5">>) @@ ("U+1F3B6" :> <<"%","F","0","%","9","F","%","8","E","%","B","6">>)

RECURSIVE quote_plus(_)
quote_plus(s) ==
  IF s = <<>> THEN <<>>
  ELSE (IF Head(s) \in Unreserved THEN <<Head(s)>>
        ELSE IF Head(s) = " " THEN <<"+">>
        ELSE PercentCode[Head(s)]) \o quote_plus(Tail(s))

SearchSuffixes ==
  << <<" ","(","O","f","f","i","c","i","a","l"," ","V","i","d","e","o",")">>,
     <<" ","(","O","f","f","i","c","i","a","l"," ","A","u","d","i","o",")">>,
     <<" ","(","O","f","f","i","c","i","a","l",")">>,
     <<" ","(","L","y","r","i","c","s",")">>,
     <<" ","M","/","V">> >>

SearchTemplate == <<"h","t","t","p","s",":","/","/","w","w","w",".","y","o","u","t","u","b","e",".","c","o","m","/","r","e","s","u","l","t","s","?","s","e","a","r","c","h","_","q","u","e","r","y","=">>

_search_youtube_url(song_title) ==
  SearchTemplate \o quote_plus(StripFirstSuffix(Strip(song_title), SearchSuffixes))

\* re.findall(r'https?://(?:www\.)?(youtube\.com|youtu\.be)/[^\s"\'>\)]+', v):
\* the host of the leftmost match, or None
UrlStops == {" ", "\"", "'", ">", ")"}

HostAt(v, i) ==
  LET cands == {h \in { <<"y","o","u","t","u","b","e",".","c","o","m">>, <<"y","o","u","t","u",".","b","e">> } :
                  \E scheme \in { <<"h","t","t","p",":","/","/">>, <<"h","t","t","p","s",":","/","/">> } :
                  \E www \in { <<>>, <<"w","w","w",".">> } :
                    LET pre == scheme \o www \o h \o <<"/">>
                    IN /\ MatchAt(v, pre, i)
                       /\ i + Len(pre) <= Len(v)
                       /\ v[i + Len(pre)] \notin UrlStops}
  IN IF cands = {} THEN NoneVal ELSE CHOOSE h \in cands : TRUE

FirstHost(v) ==
  LET hits == {i \in 1..Len(v) : HostAt(v, i) # NoneVal}
  IN IF hits = {} THEN NoneVal
     ELSE HostAt(v, CHOOSE i \in hits : \A j \in hits : i <= j)

\* the loop over result.items() of _extract_via_javascript
RECURSIVE JsFirstUrl(_)
JsFirstUrl(values) ==
  IF values = <<>> THEN <<>>
  ELSE IF /\ Truthy(Head(values))
          /\ IsYoutubeUrl(Head(values))
          /\ FirstHost(Head(values)) # NoneVal
       THEN <<"h","t","t","p","s",":","/","/">> \o FirstHost(Head(values))
       ELSE JsFirstUrl(Tail(values))

\* re.search(r'/vi/([^/]+)/', img_src).group(1), or None
VideoIdAt(src, i) ==
  LET slashes == {j \in (i + 5)..Len(src) : src[j] = "/"}
  IN IF /\ MatchAt(src, <<"/","v","i","/">>, i)
        /\ i + 4 <= Len(src)
        /\ src[i + 4] # "/"
        /\ slashes # {}
     THEN SubSeq(src, i + 4, (CHOOSE j \in slashes : \A k \in slashes : j <= k) - 1)
     ELSE NoneVal

VideoId(src) ==
  LET hits == {i \in 1..Len(src) : VideoIdAt(src, i) # NoneVal}
  IN IF hits = {} THEN NoneVal
     ELSE VideoIdAt(src, CHOOSE i \in hits : \A j \in hits : i <= j)

WatchTemplate == <<"h","t","t","p","s",":","/","/","w","w","w",".","y","o","u","t","u","b","e",".","c","o","m","/","w","a","t","c","h","?","v","=">>

\* the loop over history_rows of _extract_from_history_thumbnails: a row
\* whose title or thumbnail cannot be read, or whose src is None, raises and
\* is skipped by the inner "except: continue"
RECURSIVE HistoryUrl(_, _)
HistoryUrl(song_title, history_rows) ==
  IF history_rows = <<>> THEN <<>>
  ELSE LET h == Head(history_rows)
       IN IF /\ h.title # NoneVal
             /\ titles_match(song_title, Strip(h.title))
             /\ h.img # NoneVal
             /\ VideoId(h.img) # NoneVal
          THEN WatchTemplate \o VideoId(h.img)
          ELSE HistoryUrl(song_title, Tail(history_rows))


(***************************************************************************)
(* State                                                                   *)
(***************************************************************************)
VARIABLES
  config,            \* ExtractionConfig of the call
  custom_attributes, \* ExtractionConfig.custom_attributes
  history,           \* DOM: rows of #input-content-history, or "fault"
  window_handles,    \* driver.window_handles
  active,            \* the browsing context the driver is switched to
  pc,                \* position in the coordinator call
  element_count,     \* element_count of the running strategy
  row_index,         \* i of the row loop
  title,             \* title of the row being extracted
  link_button,       \* attributes of the row's link control, once read
  calls,             \* cascade steps invoked for the current row, in order
  youtube_url,       \* URL resolved for the current row
  songs,             \* songs list of the running strategy
  click_ret,         \* contexts before the last click simulation of the row
  all_results,       \* all_results of extract_songs_comprehensive
  merged,            \* songs of the merged Result
  outcome,           \* what a single extract_songs call produced
  selectors,         \* the ElementSelector list passed to a coordinator policy
  policy,            \* the coordinator policy that is running
  queue,             \* selectors still to process, each with its strategies left
  best_result,       \* best_result of extract_songs_best_effort (<<>> is None)
  run_log,           \* the strategy.extract_songs calls made so far and their outcome
  title1,            \* first title given to SongMatchingService
  title2,            \* second title given to SongMatchingService
  matched,           \* <<titles_match(title1, title2)>> once it was called
  normalized,        \* results of normalize_title on title1, then on its own result
  call_log           \* the policy calls made with this ExtractionConfig, in order

vars == <<config, custom_attributes, history, window_handles, active, pc,
          element_count, row_index, title, link_button, calls, youtube_url,
          songs, click_ret, all_results, merged, outcome,
          selectors, policy, queue, best_result, run_log,
          title1, title2, matched, normalized, call_log>>

\* the titles given to SongMatchingService and what it returned
MatchVars == <<title1, title2, matched, normalized>>

\* SongMatchingService has not been called
NoMatch ==
  /\ title1 = <<>>
  /\ title2 = <<>>
  /\ matched = <<>>
  /\ normalized = <<>>

\* the state of the selector loops of the coordinator policies
CoordVars == <<selectors, policy, queue, best_result, run_log>>

\* no selector loop is running
NoCoord ==
  /\ selectors = <<>>
  /\ policy = "none"
  /\ queue = <<>>
  /\ best_result = <<>>
  /\ run_log = <<>>

(***************************************************************************)
(* ExtractionConfig, ExtractionResult, SongRequest                         *)
(***************************************************************************)
DefaultMinTitleLength == 3

DefaultMaxTitleLength == 200

\* max_songs_per_strategy = None
NoLimit == 0

Configs ==
  [ min_title_length : {DefaultMinTitleLength},
    max_title_length : {DefaultMaxTitleLength},
    skip_empty_elements : {TRUE},
    max_songs_per_strategy : {NoLimit},
    skip_ui_text : {TRUE},
    clean_titles : {TRUE},
    extract_youtube_urls : BOOLEAN,
    use_robust_finding : {TRUE},
    try_direct_links : BOOLEAN,
    try_button_click : BOOLEAN,
    try_history_thumbnails : BOOLEAN,
    try_javascript_extraction : BOOLEAN,
    fallback_to_search : BOOLEAN,
    mute_audio : {TRUE},
    pause_videos : {TRUE},
    close_new_tabs : BOOLEAN ]

create_default ==
  [ min_title_length |-> DefaultMinTitleLength,
    max_title_length |-> DefaultMaxTitleLength, skip_empty_elements |-> TRUE,
    max_songs_per_strategy |-> NoLimit, skip_ui_text |-> TRUE,
    clean_titles |-> TRUE, extract_youtube_urls |-> TRUE,
    use_robust_finding |-> TRUE, try_direct_links |-> TRUE,
    try_button_click |-> TRUE, try_history_thumbnails |-> TRUE,
    try_javascript_extraction |-> TRUE, fallback_to_search |-> TRUE,
    mute_audio |-> TRUE, pause_videos |-> TRUE, close_new_tabs |-> TRUE ]

\* config.get_custom_attribute("existing_youtube_urls", {})
ExistingUrls(attrs) ==
  IF "existing_youtube_urls" \in DOMAIN attrs THEN attrs["existing_youtube_urls"] ELSE <<>>

\* variant: no __post_init__, the optional fields stay as given
ExtractionResult_AsGiven(song_list, strategy_used, selector_used, count, success, error_message, warnings, metadata) ==
  [ songs |-> song_list, strategy_used |-> strategy_used,
    selector_used |-> selector_used, element_count |-> count,
    success |-> success, error_message |-> error_message,
    warnings |-> warnings, metadata |-> metadata ]

\* the dataclass constructor with __post_init__ (timestamp left out): warnings
\* and metadata given as None become the empty list and the empty dict
ExtractionResult(song_list, strategy_used, selector_used, count, success, error_message, warnings, metadata) ==
  [ songs |-> song_list, strategy_used |-> strategy_used,
    selector_used |-> selector_used, element_count |-> count,
    success |-> success, error_message |-> error_message,
    warnings |-> IF warnings = NoneVal THEN <<>> ELSE warnings,
    metadata |-> IF metadata = NoneVal THEN <<>> ELSE metadata ]

create_success(song_list, strategy_used, selector_used, count) ==
  ExtractionResult(song_list, strategy_used, selector_used, count, TRUE,
                   NoneVal, NoneVal, NoneVal)

create_failure(error_message, strategy_used, selector_used) ==
  ExtractionResult(<<>>, strategy_used, selector_used, 0, FALSE,
                   error_message, NoneVal, NoneVal)

\* variant: a record is constructed from any title
ValidTitle_Any(t) == TRUE

\* SongRequest.__post_init__ raises ValueError on an empty title
ValidTitle(t) == t # <<>> /\ Strip(t) # <<>>

SongRequest(t, url, selector_used, index) ==
  [ title |-> Strip(t), youtube_url |-> url,
    selector_used |-> selector_used, element_index |-> index ]

(***************************************************************************)
(* The DOM the driver reads                                                *)
(***************************************************************************)
MaxRows == 1

\* str(e) of a fault raised by the driver
FaultText == <<"f","a","u","l","t">>

PageCtx == 0

RowTexts == { <<"H","e","y"," ","J","u","d","e">>, <<"I","m","a","g","i","n","e"," ","(","O","f","f","i","c","i","a","l"," ","V","i","d","e","o",")">>, <<"H","i">> }

UrlYoutube == <<"h","t","t","p","s",":","/","/","y","o","u","t","u",".","b","e","/","a","b">>

UrlOther == <<"h","t","t","p",":","/","/","x",".","o","r","g","/","a">>

KnownUrl == <<"h","t","t","p","s",":","/","/","y","o","u","t","u",".","b","e","/","k","n">>

\* caller-supplied tables of extract_songs_optimized, keyed by lowercase title
KnownTables == { <<>>, ( <<"h","e","y"," ","j","u","d","e">> :> KnownUrl) }

\* find_element of the link control: found or raising, and its attributes
ButtonReads ==
  [found : BOOLEAN, data_url : {NoneVal, UrlYoutube, UrlOther}, href : {NoneVal, UrlYoutube}]

NoButton == [found |-> FALSE, data_url |-> NoneVal, href |-> NoneVal]

NoClick == [done |-> FALSE, active |-> PageCtx, handles |-> <<>>, log |-> <<>>]

ClickFaults ==
  {"none", "handles1", "click", "handles2", "switch", "current_url", "close", "switch_back"}

ClickReads ==
  [fault : ClickFaults, opens : BOOLEAN, loc : {UrlYoutube, UrlOther}, recover_fault : BOOLEAN]

\* execute_script of _extract_via_javascript: raising, or the values of result
JsReads ==
  [ fault : BOOLEAN,
    values : { <<NoneVal, NoneVal>>,
               <<NoneVal, <<"o","p","e","n","(","'","h","t","t","p","s",":","/","/","y","o","u","t","u",".","b","e","/","j","s","'",")">> >>,
               << <<"y","o","u","t","u","b","e",".","c","o","m">>, NoneVal>> } ]

ThumbSrc == <<"h","t","t","p","s",":","/","/","i","m","g",".","y","o","u","t","u","b","e",".","c","o","m","/","v","i","/","a","b","/","0",".","j","p","g">>

\* the history region: whether its query raises, and its rows
HistoryOther == << [title |-> <<"H","i","c","c","u","p">>, img |-> ThumbSrc] >>

HistoryMatch ==
  << [title |-> <<"I","m","a","g","i","n","e"," ","(","L","y","r","i","c","s",")">>, img |-> NoneVal],
     [title |-> <<" ","i","m","a","g","i","n","e"," ","m","/","v">>, img |-> ThumbSrc] >>

Histories ==
  { [fault |-> TRUE, rows |-> HistoryMatch],
    [fault |-> FALSE, rows |-> HistoryOther],
    [fault |-> FALSE, rows |-> HistoryMatch] }

(***************************************************************************)
(* TableRowExtractionStrategy: the URL cascade                             *)
(***************************************************************************)
Last(s) == s[Len(s)]

FreshHandle(handles) ==
  1 + (CHOOSE m \in Range(handles) \cup {PageCtx} : \A h \in Range(handles) : h <= m)

\* the except branch of _extract_via_button_click:
\* driver.switch_to.window(driver.window_handles[0]), its own fault passed over
RecoverWindow(handles, act, o) ==
  IF o.recover_fault \/ handles = <<>> THEN act ELSE handles[1]

ClickReturn(handles, act, url) == [handles |-> handles, active |-> act, url |-> url]

\* _extract_via_button_click on the contexts (handles, act) under the DOM
\* behaviour o: which call raises, whether the click opens a context, the
\* location of that context
_extract_via_button_click(handles, act, cfg, o) ==
  LET new_window == FreshHandle(handles)
      opened == IF o.opens THEN Append(handles, new_window) ELSE handles
      found == IF IsYoutubeUrl(o.loc) THEN o.loc ELSE <<>>
  IN IF o.fault \in {"handles1", "click"}
       THEN ClickReturn(handles, RecoverWindow(handles, act, o), <<>>)
     ELSE IF o.fault = "handles2"
       THEN ClickReturn(opened, RecoverWindow(opened, act, o), <<>>)
     ELSE IF ~o.opens
       THEN ClickReturn(handles, act, <<>>)
     ELSE IF o.fault = "switch"
       THEN ClickReturn(opened, RecoverWindow(opened, act, o), <<>>)
     ELSE IF o.fault = "current_url"
       THEN ClickReturn(opened, RecoverWindow(opened, new_window, o), <<>>)
     ELSE IF ~cfg.close_new_tabs
       THEN ClickReturn(opened, new_window, found)
     ELSE IF o.fault = "close"
       THEN ClickReturn(opened, RecoverWindow(opened, new_window, o), <<>>)
     ELSE IF o.fault = "switch_back"
       THEN ClickReturn(handles, RecoverWindow(handles, new_window, o), <<>>)
     ELSE ClickReturn(handles, handles[1], found)

\* variant: the script is not run
_control_video_playback_Skipped(cfg) == <<>>

\* the script of _control_video_playback: what it does to every video element
_control_video_playback(cfg) ==
  (IF cfg.pause_videos THEN <<"pause">> ELSE <<>>) \o
  (IF cfg.mute_audio THEN <<"mute">> ELSE <<>>)

\* what _extract_via_button_click does on the opened context after switching
\* to it, up to the read of driver.current_url
ClickLog(cfg, o) ==
  IF o.fault \in {"handles1", "click", "handles2", "switch"} \/ ~o.opens THEN <<>>
  ELSE (IF cfg.mute_audio \/ cfg.pause_videos THEN _control_video_playback(cfg) ELSE <<>>)
       \o <<"current_url">>

\* variant: only href is read from the link button
DirectLinkUrl_HrefOnly(button) ==
  IF Truthy(button.href) /\ IsYoutubeUrl(button.href) THEN button.href ELSE <<>>

\* Method 1 of _extract_youtube_url_comprehensive: data-url, then href
DirectLinkUrl(button) ==
  IF Truthy(button.data_url) /\ IsYoutubeUrl(button.data_url) THEN button.data_url
  ELSE IF Truthy(button.href) /\ IsYoutubeUrl(button.href) THEN button.href
  ELSE <<>>

\* variant: the cascade ends after the history scan
AfterHistory_NoSearch(cfg) == "row_end"

\* where the cascade goes when a step has yielded no value
AfterHistory(cfg) == IF cfg.fallback_to_search THEN "search" ELSE "row_end"

AfterButton(cfg) == IF cfg.try_history_thumbnails THEN "history" ELSE AfterHistory(cfg)

AfterJavascript(cfg) == IF cfg.fallback_to_search THEN "button_search" ELSE AfterButton(cfg)

AfterClick(cfg) == IF cfg.try_javascript_extraction THEN "js" ELSE AfterJavascript(cfg)

\* _extract_youtube_url_from_button: click first, then JavaScript
FromButton(cfg) == IF cfg.try_button_click THEN "click" ELSE AfterClick(cfg)

AfterDirect(cfg) ==
  IF cfg.try_button_click \/ cfg.try_javascript_extraction THEN FromButton(cfg)
  ELSE AfterButton(cfg)

CascadeStart(cfg) == IF cfg.try_direct_links THEN "direct" ELSE AfterButton(cfg)


(***************************************************************************)
(* ExtractionCoordinator._combine_and_deduplicate_songs                    *)
(***************************************************************************)
\* variant: every strategy name has the same priority
strategy_priority_Flat(name) == 0

strategy_priority(name) ==
  CASE name = "table_row" -> 10
    [] name = "youtube_link" -> 8
    [] name = "general_element" -> 5
    [] name = "text_parsing" -> 1
    [] OTHER -> 0

\* list.sort(key=..., reverse=True): stable, descending
RECURSIVE InsertByPriority(_, _)
InsertByPriority(r, sorted) ==
  IF sorted = <<>> THEN <<r>>
  ELSE IF strategy_priority(Head(sorted).strategy_used) >= strategy_priority(r.strategy_used)
       THEN <<Head(sorted)>> \o InsertByPriority(r, Tail(sorted))
       ELSE <<r>> \o sorted

\* variant: the Results are walked in the order they were produced
SortByPriority_AsProduced(rs) == rs

RECURSIVE SortByPriority(_)
SortByPriority(rs) ==
  IF rs = <<>> THEN <<>>
  ELSE InsertByPriority(rs[Len(rs)], SortByPriority(SubSeq(rs, 1, Len(rs) - 1)))

SelectSuccessful(rs) == SelectSeq(rs, LAMBDA r : r.success)

RECURSIVE ConcatSongs(_)
ConcatSongs(rs) == IF rs = <<>> THEN <<>> ELSE Head(rs).songs \o ConcatSongs(Tail(rs))

\* variant: duplicates are found by the lower-cased title only
is_duplicate_SeenTitles(song, accepted) ==
  \E k \in 1..Len(accepted) : Lower(song.title) = Lower(accepted[k].title)

is_duplicate(song, accepted) ==
  \E k \in 1..Len(accepted) : songs_match(song, accepted[k])

RECURSIVE AcceptUnique(_, _)
AcceptUnique(candidates, accepted) ==
  IF candidates = <<>> THEN accepted
  ELSE AcceptUnique(Tail(candidates),
                    IF is_duplicate(Head(candidates), accepted) THEN accepted
                    ELSE Append(accepted, Head(candidates)))

_combine_and_deduplicate_songs(rs) ==
  AcceptUnique(ConcatSongs(SortByPriority(SelectSuccessful(rs))), <<>>)

(***************************************************************************)
(* One coordinator call on the row selector "tr": Optimized or             *)
(* Deduplicated -> Comprehensive -> TableRowExtractionStrategy             *)
(***************************************************************************)
NoOutcome == [raised |-> FALSE, returned |-> FALSE]

Init ==
  /\ config \in Configs
  /\ custom_attributes = <<>>
  /\ history \in Histories
  /\ window_handles = <<PageCtx>>
  /\ active = PageCtx
  /\ pc = "idle"
  /\ element_count = 0
  /\ row_index = 0
  /\ title = <<>>
  /\ link_button = NoButton
  /\ calls = <<>>
  /\ youtube_url = <<>>
  /\ songs = <<>>
  /\ click_ret = NoClick
  /\ all_results = <<>>
  /\ merged = <<>>
  /\ outcome = NoOutcome
  /\ NoCoord
  /\ NoMatch
  /\ call_log = <<>>

RowVars == <<title, link_button, calls, youtube_url, click_ret>>

\* the entry of call_log for one call of a policy
PolicyCall(name, existing_songs_with_urls) ==
  [policy |-> name, existing_songs_with_urls |-> existing_songs_with_urls]

extract_songs_optimized ==
  /\ pc = "idle"
  /\ \E known \in KnownTables :
       /\ custom_attributes' = ("existing_youtube_urls" :> known) @@
                               ("skip_existing_urls" :> TRUE) @@ custom_attributes
       /\ call_log' = Append(call_log, PolicyCall("optimized", known))
  /\ pc' = "find"
  /\ UNCHANGED <<config, history, window_handles, active, element_count, row_index,
                 RowVars, songs, all_results, merged, outcome, CoordVars, MatchVars>>

\* variant: the call works on a Config without custom attributes
extract_songs_deduplicated_FreshConfig ==
  /\ pc = "idle"
  /\ pc' = "find"
  /\ custom_attributes' = <<>>
  /\ call_log' = Append(call_log, PolicyCall("deduplicated", <<>>))
  /\ UNCHANGED <<config, history, window_handles, active,
                 element_count, row_index, RowVars, songs, all_results, merged, outcome, CoordVars, MatchVars>>

extract_songs_deduplicated ==
  /\ pc = "idle"
  /\ pc' = "find"
  /\ call_log' = Append(call_log, PolicyCall("deduplicated", <<>>))
  /\ UNCHANGED <<config, custom_attributes, history, window_handles, active,
                 element_count, row_index, RowVars, songs, all_results, merged, outcome, CoordVars, MatchVars>>

\* driver.find_elements of _extract_songs_robust / _extract_songs_simple
FindRows ==
  /\ pc = "find"
  /\ \E raise \in BOOLEAN, n \in 0..MaxRows :
       IF raise
       THEN /\ all_results' = <<create_failure(FaultText, "table_row", "tr")>>
            /\ pc' = "merge"
            /\ UNCHANGED <<element_count, row_index, songs>>
       ELSE /\ element_count' = n
            /\ row_index' = 0
            /\ songs' = <<>>
            /\ pc' = IF n = 0 THEN "success" ELSE "row"
            /\ UNCHANGED all_results
  /\ UNCHANGED <<config, custom_attributes, history, window_handles, active,
                 RowVars, merged, outcome, CoordVars, MatchVars, call_log>>

NextRow(i, count) == IF i + 1 >= count THEN "success" ELSE "row"

\* variant: the table is looked up by the title as scraped
ExistingKey_AsScraped(t) == t

\* title.lower(), the key looked up in existing_youtube_urls
ExistingKey(t) == Lower(t)

\* the title filter shared by both row extractors
RejectTitle(t, cfg) ==
  \/ t = <<>>
  \/ Len(t) < cfg.min_title_length
  \/ cfg.skip_ui_text /\ is_ui_text(t)

CleanedTitle(t, cfg) == IF cfg.clean_titles THEN clean_song_title(t) ELSE t

\* rows of the page are found only while the driver is on the page's context
RowReads == [kind : {"raise", "missing", "text"}, text : RowTexts]

StartRow(raw) ==
  LET t == CleanedTitle(Strip(raw), config)
      existing_urls == ExistingUrls(custom_attributes)
  IN /\ title' = t
     /\ link_button' = NoButton
     /\ calls' = <<>>
     /\ click_ret' = NoClick
     /\ IF ~config.extract_youtube_urls
        THEN youtube_url' = <<>> /\ pc' = "row_end"
        ELSE IF ExistingKey(t) \in DOMAIN existing_urls
        THEN youtube_url' = existing_urls[ExistingKey(t)] /\ pc' = "row_end"
        ELSE youtube_url' = <<>> /\ pc' = CascadeStart(config)
     /\ UNCHANGED row_index

SkipRow ==
  /\ row_index' = row_index + 1
  /\ pc' = NextRow(row_index, element_count)
  /\ UNCHANGED RowVars

_extract_from_table_row_robust ==
  /\ pc = "row"
  /\ config.use_robust_finding
  /\ \E dom \in RowReads :
       IF active # PageCtx \/ dom.kind # "text" \/ RejectTitle(Strip(dom.text), config)
       THEN SkipRow
       ELSE StartRow(dom.text)
  /\ UNCHANGED <<config, custom_attributes, history, window_handles, active,
                 element_count, songs, all_results, merged, outcome, CoordVars, MatchVars, call_log>>

CascadeFrame ==
  UNCHANGED <<config, custom_attributes, history, element_count, row_index, title,
              songs, all_results, merged, outcome, CoordVars, MatchVars, call_log>>

\* a step returns url when it is truthy, else the cascade moves to next_step
StepResult(step, url, next_step) ==
  /\ calls' = Append(calls, step)
  /\ IF url # <<>>
     THEN youtube_url' = url /\ pc' = "row_end"
     ELSE youtube_url' = <<>> /\ pc' = next_step

DirectRead ==
  /\ pc = "direct"
  /\ \E b \in ButtonReads :
       IF ~b.found
       THEN /\ link_button' = NoButton
            /\ StepResult("direct", <<>>, AfterButton(config))
       ELSE /\ link_button' = b
            /\ StepResult("direct", DirectLinkUrl(b), AfterDirect(config))
  /\ UNCHANGED <<window_handles, active, click_ret>>
  /\ CascadeFrame

ButtonClick ==
  /\ pc = "click"
  /\ \E o \in ClickReads :
       LET r == _extract_via_button_click(window_handles, active, config, o)
       IN /\ window_handles' = r.handles
          /\ active' = r.active
          /\ StepResult("click", r.url, AfterClick(config))
          /\ click_ret' = [done |-> TRUE, active |-> active, handles |-> window_handles,
                           log |-> ClickLog(config, o)]
  /\ UNCHANGED link_button
  /\ CascadeFrame

\* the button belongs to the page: on another context the script raises
Javascript ==
  /\ pc = "js"
  /\ \E v \in JsReads :
       LET url == IF v.fault \/ active # PageCtx THEN <<>> ELSE JsFirstUrl(v.values)
       IN StepResult("js", url, AfterJavascript(config))
  /\ UNCHANGED <<window_handles, active, click_ret, link_button>>
  /\ CascadeFrame

\* "Fallback to search" of _extract_youtube_url_from_button
ButtonSearch ==
  /\ pc = "button_search"
  /\ StepResult("search", _search_youtube_url(title), AfterButton(config))
  /\ UNCHANGED <<window_handles, active, click_ret, link_button>>
  /\ CascadeFrame

HistoryScan ==
  /\ pc = "history"
  /\ LET rows == IF history.fault \/ active # PageCtx THEN <<>> ELSE history.rows
     IN StepResult("history", HistoryUrl(title, rows), AfterHistory(config))
  /\ UNCHANGED <<window_handles, active, click_ret, link_button>>
  /\ CascadeFrame

Search ==
  /\ pc = "search"
  /\ StepResult("search", _search_youtube_url(title), "row_end")
  /\ UNCHANGED <<window_handles, active, click_ret, link_button>>
  /\ CascadeFrame

\* SongRequest.from_dict(song_info); songs.append(song_request)
AppendSong ==
  /\ pc = "row_end"
  /\ songs' = IF ValidTitle(title)
              THEN Append(songs, SongRequest(title, youtube_url, "tr", row_index))
              ELSE songs
  /\ row_index' = row_index + 1
  /\ pc' = NextRow(row_index, element_count)
  /\ UNCHANGED <<config, custom_attributes, history, window_handles, active,
                 element_count, RowVars, all_results, merged, outcome, CoordVars, MatchVars, call_log>>

ReturnSuccess ==
  /\ pc = "success"
  /\ all_results' = <<create_success(songs, "table_row", "tr", element_count)>>
  /\ pc' = "merge"
  /\ UNCHANGED <<config, custom_attributes, history, window_handles, active,
                 element_count, row_index, RowVars, songs, merged, outcome, CoordVars, MatchVars, call_log>>

RECURSIVE Sum(_)
Sum(counts) == IF counts = <<>> THEN 0 ELSE Head(counts) + Sum(Tail(counts))

\* variant: a call without a successful run returns a failure
DeduplicatedResult_FailureWithoutSuccess(rs, combined_songs) ==
  [create_success(combined_songs, "coordinator", "multiple", 0) EXCEPT
     !.success = \E k \in DOMAIN rs : rs[k].success,
     !.metadata = [total_results |-> Len(rs),
                   successful_results |-> Len(SelectSuccessful(rs)),
                   failed_results |-> Len(rs) - Len(SelectSuccessful(rs))]]

\* the summary Result of extract_songs_deduplicated: create_success, then
\* add_metadata; strategy_used and selector_used join the names of a set in
\* its iteration order, kept here as the sets themselves; no individual
\* Result carries warnings
DeduplicatedResult(rs, combined_songs) ==
  [create_success(combined_songs,
                  [coordinator |-> {rs[k].strategy_used : k \in DOMAIN rs}],
                  [multiple |-> {rs[k].selector_used : k \in DOMAIN rs}],
                  Sum([k \in DOMAIN rs |-> rs[k].element_count])) EXCEPT
     !.metadata = [total_results |-> Len(rs),
                   successful_results |-> Len(SelectSeq(rs, LAMBDA r : r.success)),
                   failed_results |-> Len(SelectSeq(rs, LAMBDA r : ~r.success)),
                   strategies_used |-> {rs[k].strategy_used : k \in DOMAIN rs},
                   selectors_used |-> {rs[k].selector_used : k \in DOMAIN rs},
                   deduplication_enabled |-> TRUE]]

\* the rest of extract_songs_deduplicated after the runs (extract_songs_optimized
\* returns this Result as it is)
Combine ==
  /\ pc = "merge"
  /\ merged' = _combine_and_deduplicate_songs(all_results)
  /\ outcome' = [raised |-> FALSE, returned |-> TRUE,
                 result |-> DeduplicatedResult(all_results, merged')]
  /\ pc' = "done"
  /\ UNCHANGED <<config, custom_attributes, history, window_handles, active,
                 element_count, row_index, RowVars, songs, all_results, CoordVars, MatchVars, call_log>>

Next ==
  \/ extract_songs_optimized
  \/ extract_songs_deduplicated
  \/ FindRows
  \/ _extract_from_table_row_robust
  \/ DirectRead
  \/ ButtonClick
  \/ Javascript
  \/ ButtonSearch
  \/ HistoryScan
  \/ Search
  \/ AppendSong
  \/ ReturnSuccess
  \/ Combine

Spec == Init /\ [][Next]_vars

(***************************************************************************)
(* Several coordinator calls with the same ExtractionConfig object         *)
(***************************************************************************)
\* bound on the calls made with one ExtractionConfig
MaxCalls == 2

\* the steps after the direct read switched off, the search URL left on
RepeatConfig ==
  [create_default EXCEPT !.try_button_click = FALSE,
                         !.try_javascript_extraction = FALSE,
                         !.try_history_thumbnails = FALSE]

InitRepeat ==
  /\ config = RepeatConfig
  /\ custom_attributes = <<>>
  /\ history = [fault |-> FALSE, rows |-> HistoryOther]
  /\ window_handles = <<PageCtx>>
  /\ active = PageCtx
  /\ pc = "idle"
  /\ element_count = 0
  /\ row_index = 0
  /\ title = <<>>
  /\ link_button = NoButton
  /\ calls = <<>>
  /\ youtube_url = <<>>
  /\ songs = <<>>
  /\ click_ret = NoClick
  /\ all_results = <<>>
  /\ merged = <<>>
  /\ outcome = NoOutcome
  /\ NoCoord
  /\ NoMatch
  /\ call_log = <<>>

\* the caller has its Result and calls a policy again with the same
\* ExtractionConfig: the locals of the finished call are gone, the
\* ExtractionConfig and the driver are as the call left them
CallAgain ==
  /\ pc = "done"
  /\ Len(call_log) < MaxCalls
  /\ pc' = "idle"
  /\ element_count' = 0
  /\ row_index' = 0
  /\ title' = <<>>
  /\ link_button' = NoButton
  /\ calls' = <<>>
  /\ youtube_url' = <<>>
  /\ click_ret' = NoClick
  /\ songs' = <<>>
  /\ all_results' = <<>>
  /\ merged' = <<>>
  /\ outcome' = NoOutcome
  /\ UNCHANGED <<config, custom_attributes, history, window_handles, active,
                 CoordVars, MatchVars, call_log>>

NextRepeat ==
  \/ extract_songs_optimized
  \/ extract_songs_deduplicated
  \/ FindRows
  \/ _extract_from_table_row_robust
  \/ DirectRead
  \/ Search
  \/ AppendSong
  \/ ReturnSuccess
  \/ Combine
  \/ CallAgain

SpecRepeat == InitRepeat /\ [][NextRepeat]_vars


(***************************************************************************)
(* extract_songs of the four strategies under a faulting DOM               *)
(***************************************************************************)
MaxElements == 2

ElementTexts == { <<"I","m","a","g","i","n","e">>, <<"I","m","a","g","i","n","e","!">>, <<"N","o","w"," ","P","l","a","y","i","n","g",":">>, <<"U+266A"," ","H","i">> }

\* what the driver gives for one matched element: a fault on its first read,
\* or its text and the video URL found on it
NoLink == [href |-> <<>>, text |-> <<>>]

\* the first YouTube anchor of an element (for an anchor: its own href)
\* the text of the anchor inside an element is part of the element's text
AnchorText(text) ==
  IF text = <<"I","m","a","g","i","n","e","!">> THEN <<"I","m","a","g","i","n","e">>
  ELSE IF text = <<"U+266A"," ","H","i">> THEN <<"H","i">>
  ELSE text

ElementLinks(text) == { NoLink, [href |-> UrlYoutube, text |-> AnchorText(text)] }

\* an element whose reads raise (stale reference)
FaultRead == [fault |-> TRUE, text |-> <<>>, link |-> NoLink]

ElementReads ==
  {FaultRead} \cup
  UNION {{[fault |-> FALSE, text |-> t, link |-> l] : l \in ElementLinks(t)} : t \in ElementTexts}

ElementLists == UNION {[1..n -> ElementReads] : n \in 0..MaxElements}

\* ExtractionConfig(max_title_length=2): __post_init__ only fills in
\* custom_attributes, the thresholds are stored as given
UncheckedConfig == [create_default EXCEPT !.max_title_length = 2]

RunConfigs ==
  { [create_default EXCEPT !.use_robust_finding = r, !.max_songs_per_strategy = m] :
      r \in BOOLEAN, m \in {NoLimit, 1} } \cup {UncheckedConfig}

\* the DOM of one run: whether find_elements raises, and the elements
\* remaining: how many elements the collection still has when a robust run
\* queries it again before a row access
RunDoms ==
  {[find_fault |-> TRUE, elements |-> <<>>, remaining |-> 0]} \cup
  {[find_fault |-> FALSE, elements |-> es, remaining |-> Len(es)] : es \in ElementLists}

\* the DOMs of a run during which the collection may shrink
ShrinkingDoms(cfg) ==
  IF cfg.use_robust_finding
  THEN UNION {{[dom EXCEPT !.remaining = k] : k \in 0..Len(dom.elements)} : dom \in RunDoms}
  ELSE RunDoms

\* a call either returns a Result or lets an exception escape
NoResult == create_failure(NoneVal, "", "")

Raise(e) == [raised |-> TRUE, error |-> e, value |-> NoResult]

Return(v) == [raised |-> FALSE, error |-> NoneVal, value |-> v]

\* variant: no handler, the exception leaves the call
ExceptException_Propagate(body, strategy_used, selector_used) == body

\* try: body / except Exception as e: return create_failure(str(e), name, selector)
ExceptException(body, strategy_used, selector_used) ==
  IF body.raised
  THEN Return(create_failure(body.error, strategy_used, selector_used))
  ELSE body

\* the dict a per-element extractor returns, or None
NoInfo == [some |-> FALSE, title |-> <<>>, url |-> <<>>]

Info(t, url) == [some |-> TRUE, title |-> t, url |-> url]

\* _extract_from_table_row(_robust): every fault inside returns None; the
\* URL is what the cascade resolved for the row
TableRowInfo(read, cfg) ==
  IF read.fault \/ RejectTitle(Strip(read.text), cfg) THEN NoInfo
  ELSE Info(CleanedTitle(Strip(read.text), cfg),
            IF cfg.extract_youtube_urls THEN read.link.href ELSE <<>>)

\* the filter applied after clean_song_title by the other strategies
RejectCleaned(t, cfg) ==
  \/ Len(t) < cfg.min_title_length
  \/ Len(t) > cfg.max_title_length
  \/ cfg.skip_ui_text /\ is_ui_text(t)

\* _extract_from_youtube_link; the anchor texts of ElementTexts are neither
\* empty nor the href, so the title is the anchor text
YouTubeLinkInfo(read, cfg) ==
  LET t == CleanedTitle(Strip(read.text), cfg)
  IN IF \/ read.fault
        \/ ~Truthy(read.link.href)
        \/ ~IsYoutubeUrl(read.link.href)
        \/ RejectCleaned(t, cfg)
     THEN NoInfo
     ELSE Info(t, read.link.href)

\* _extract_from_element (simple finding prefers the link text as title)
\* and _extract_from_element_robust (always the element text)
GeneralElementInfo(read, cfg) ==
  LET element_text == Strip(read.text)
      url == IF cfg.extract_youtube_urls /\ IsYoutubeUrl(read.link.href)
             THEN read.link.href ELSE <<>>
      link_text == Strip(read.link.text)
      raw == IF ~cfg.use_robust_finding /\ url # <<>> /\ link_text # <<>>
             THEN link_text ELSE element_text
      t == CleanedTitle(raw, cfg)
  IN IF \/ read.fault
        \/ cfg.skip_empty_elements /\ Len(element_text) < cfg.min_title_length
        \/ RejectCleaned(t, cfg)
     THEN NoInfo
     ELSE Info(t, url)

\* the loop "for i ...: song_info = ...; songs.append(SongRequest.from_dict(..))":
\* a ValueError of SongRequest skips the element, cap > 0 breaks the loop
RECURSIVE CollectSongs(_, _, _, _, _)
CollectSongs(infos, i, acc, selector_used, cap) ==
  IF i > Len(infos) THEN acc
  ELSE IF infos[i].some /\ ValidTitle(infos[i].title)
       THEN LET acc2 == Append(acc, SongRequest(infos[i].title, infos[i].url,
                                                selector_used, i - 1))
            IN IF cap # NoLimit /\ Len(acc2) >= cap THEN acc2
               ELSE CollectSongs(infos, i + 1, acc2, selector_used, cap)
       ELSE CollectSongs(infos, i + 1, acc, selector_used, cap)

\* _extract_songs_simple / _extract_songs_robust of a strategy
RunElements(dom, infos, name, selector, cap) ==
  ExceptException(
    IF dom.find_fault THEN Raise(FaultText)
    ELSE Return(create_success(CollectSongs(infos, 1, <<>>, selector, cap),
                               name, selector, Len(dom.elements))),
    name, selector)

\* variant: the index is used without looking at the re-queried collection
RobustRow_Unchecked(i, dom, cfg, info) == info

\* rows = driver.find_elements(...); if row_index >= len(rows): return None
RobustRow(i, dom, cfg, info) ==
  IF cfg.use_robust_finding /\ i > dom.remaining THEN NoInfo ELSE info

TableRowExtractSongs(dom, selector, cfg) ==
  ExceptException(
    RunElements(dom, [i \in DOMAIN dom.elements |->
                       RobustRow(i, dom, cfg, TableRowInfo(dom.elements[i], cfg))],
                "table_row", selector, NoLimit),
    "table_row", selector)

YouTubeLinkExtractSongs(dom, selector, cfg) ==
  ExceptException(
    RunElements(dom, [i \in DOMAIN dom.elements |-> YouTubeLinkInfo(dom.elements[i], cfg)],
                "youtube_link", selector, cfg.max_songs_per_strategy),
    "youtube_link", selector)

GeneralElementExtractSongs(dom, selector, cfg) ==
  ExceptException(
    RunElements(dom, [i \in DOMAIN dom.elements |->
                       RobustRow(i, dom, cfg, GeneralElementInfo(dom.elements[i], cfg))],
                "general_element", selector, cfg.max_songs_per_strategy),
    "general_element", selector)

(***************************************************************************)
(* TextParsingExtractionStrategy                                           *)
(***************************************************************************)
TextParsingCap == 50

MinLineLength == 5

LineUiWords ==
  { <<"c","l","i","c","k">>, <<"t","o","g","g","l","e">>, <<"m","e","n","u">>, <<"b","u","t","t","o","n">>, <<"l","o","g","i","n">>, <<"s","i","g","n"," ","u","p">>,
    <<"h","o","m","e">>, <<"a","b","o","u","t">>, <<"c","o","n","t","a","c","t">>, <<"h","e","l","p">>, <<"s","e","t","t","i","n","g","s">> }

LineStopPhrases ==
  { <<"l","o","a","d","i","n","g">>, <<"p","l","e","a","s","e"," ","w","a","i","t">>, <<"e","r","r","o","r">>, <<"n","o","t"," ","f","o","u","n","d">>,
    <<"n","o"," ","r","e","s","u","l","t","s">>, <<"e","m","p","t","y">>, <<"n","o","n","e">>, <<"n","u","l","l">> }

IsAlnum(c) == c \in LowerLetters \cup UpperLetters \cup Digits

\* sum(c.isdigit() or not c.isalnum() and c != ' ' for c in l)
NoisyChars(l) ==
  Cardinality({i \in 1..Len(l) : l[i] \in Digits \/ (~IsAlnum(l[i]) /\ l[i] # " ")})

Max(a, b) == IF a >= b THEN a ELSE b

_is_potential_song_line(line, cfg) ==
  /\ line # <<>>
  /\ Len(Strip(line)) >= cfg.min_title_length
  /\ ~(\E p \in { <<"h","t","t","p">>, <<"w","w","w">>, <<"f","t","p">> } : StartsWith(line, p))
  /\ ~(\E w \in LineUiWords : Contains(Lower(line), w))
  /\ ~(Len(Strip(line)) < MinLineLength)
  /\ ~(NoisyChars(line) > Len(line) \div 2)
  /\ Strip(Lower(line)) \notin LineStopPhrases
  /\ ~(Cardinality(Range(Split(Lower(line)))) < Max(1, Len(Split(line)) \div 3))

\* _parse_text_for_songs over the lines of the page text
\* variant: no line counts as seen
AlreadySeen_Never(clean_lower, seen_titles) == FALSE

\* if clean_lower in seen_titles: continue
AlreadySeen(clean_lower, seen_titles) == clean_lower \in seen_titles

RECURSIVE ParseLines(_, _, _, _, _)
ParseLines(lines, n, seen_titles, acc, cfg) ==
  IF n > Len(lines) THEN acc
  ELSE LET line == Strip(lines[n])
           clean_line == CleanedTitle(line, cfg)
       IN IF \/ ~_is_potential_song_line(line, cfg)
             \/ RejectCleaned(clean_line, cfg)
             \/ AlreadySeen(Lower(clean_line), seen_titles)
          THEN ParseLines(lines, n + 1, seen_titles, acc, cfg)
          ELSE LET acc2 == acc \o <<[info |-> Info(clean_line, <<>>), line_num |-> n - 1]>>
               IN IF Len(acc2) >= TextParsingCap THEN acc2
                  ELSE ParseLines(lines, n + 1, seen_titles \cup {Lower(clean_line)}, acc2, cfg)

\* the loop over song_dicts of _extract_songs_from_text
RECURSIVE CollectParsed(_, _, _, _)
CollectParsed(dicts, k, acc, cap) ==
  IF k > Len(dicts) THEN acc
  ELSE IF ValidTitle(dicts[k].info.title)
       THEN LET acc2 == Append(acc, SongRequest(dicts[k].info.title, <<>>,
                                                "text_parsing", dicts[k].line_num))
            IN IF cap # NoLimit /\ Len(acc2) >= cap THEN acc2
               ELSE CollectParsed(dicts, k + 1, acc2, cap)
       ELSE CollectParsed(dicts, k + 1, acc, cap)

\* _extract_songs_from_text: a fault of find_elements or of any elem.text
\* aborts the run; blank texts are left out of page_text
TextParsingExtractSongs(dom, selector, cfg) ==
  LET lines == SelectSeq([i \in DOMAIN dom.elements |-> dom.elements[i].text],
                         LAMBDA t : Strip(t) # <<>>)
      aborted == dom.find_fault \/ \E i \in DOMAIN dom.elements : dom.elements[i].fault
  IN ExceptException(
       ExceptException(
         IF aborted THEN Raise(FaultText)
         ELSE Return(create_success(
                CollectParsed(ParseLines(lines, 1, {}, <<>>, cfg), 1, <<>>,
                              cfg.max_songs_per_strategy),
                "text_parsing", selector, 1)),
         "text_parsing", selector),
       "text_parsing", selector)

(***************************************************************************)
(* One extract_songs call of a strategy                                    *)
(***************************************************************************)
InitRun ==
  /\ config \in RunConfigs
  /\ custom_attributes = <<>>
  /\ history = [fault |-> FALSE, rows |-> <<>>]
  /\ window_handles = <<PageCtx>>
  /\ active = PageCtx
  /\ pc = "call"
  /\ element_count = 0
  /\ row_index = 0
  /\ title = <<>>
  /\ link_button = NoButton
  /\ calls = <<>>
  /\ youtube_url = <<>>
  /\ songs = <<>>
  /\ click_ret = NoClick
  /\ all_results = <<>>
  /\ merged = <<>>
  /\ outcome = NoOutcome
  /\ NoCoord
  /\ NoMatch
  /\ call_log = <<>>

RunFrame ==
  UNCHANGED <<config, custom_attributes, history, window_handles, active,
              element_count, row_index, RowVars, songs, all_results, merged, CoordVars, MatchVars, call_log>>

Returned(o, name, selector, dom) ==
  /\ outcome' = [returned |-> TRUE, raised |-> o.raised, result |-> o.value,
                 strategy |-> name, selector |-> selector, dom |-> dom]
  /\ pc' = "returned"

table_row_extract_songs ==
  /\ pc = "call"
  /\ \E dom \in ShrinkingDoms(config) :
       Returned(TableRowExtractSongs(dom, "tr", config), "table_row", "tr", dom)
  /\ RunFrame

youtube_link_extract_songs ==
  /\ pc = "call"
  /\ \E dom \in RunDoms :
       Returned(YouTubeLinkExtractSongs(dom, "a[href*='youtube.com']", config),
                "youtube_link", "a[href*='youtube.com']", dom)
  /\ RunFrame

general_element_extract_songs ==
  /\ pc = "call"
  /\ \E dom \in ShrinkingDoms(config) :
       Returned(GeneralElementExtractSongs(dom, ".song-title", config),
                "general_element", ".song-title", dom)
  /\ RunFrame

text_parsing_extract_songs ==
  /\ pc = "call"
  /\ \E dom \in RunDoms :
       Returned(TextParsingExtractSongs(dom, "div, span, p, li", config),
                "text_parsing", "div, span, p, li", dom)
  /\ RunFrame

NextRun ==
  \/ table_row_extract_songs
  \/ youtube_link_extract_songs
  \/ general_element_extract_songs
  \/ text_parsing_extract_songs

SpecRun == InitRun /\ [][NextRun]_vars

(***************************************************************************)
(* extract_songs_comprehensive collecting Results, then the merge          *)
(***************************************************************************)
\* bound on the collected Results: 2 per Result plus 1 per record
MaxMergeSize == 7

\* bound on the records of one collected Result
MaxRunSongs == 3

MergeTitles ==
  { <<"a"," ","b"," ","c"," ","d">>, <<"a"," ","b"," ","c"," ","d"," ","e">>, <<"a"," ","b"," ","c"," ","d"," ","e"," ","(","O","f","f","i","c","i","a","l"," ","V","i","d","e","o",")">>, <<"a"," ","b"," ","c"," ","d"," ","e"," ","f">> }

\* the strategy/selector combinations of the default selectors that run
StrategyRuns ==
  { [strategy |-> "table_row", selector |-> "tr"],
    [strategy |-> "youtube_link", selector |-> "a[href*='youtube.com']"],
    [strategy |-> "general_element", selector |-> ".song-title"],
    [strategy |-> "general_element", selector |-> "a"],
    [strategy |-> "text_parsing", selector |-> "div, span, p, li"] }

\* selector_used of the records of a run (text parsing writes its own name)
RecordSelector(run) ==
  IF run.strategy = "text_parsing" THEN "text_parsing" ELSE run.selector

RECURSIVE MergeSize(_)
MergeSize(rs) == IF rs = <<>> THEN 0 ELSE 2 + Len(Head(rs).songs) + MergeSize(Tail(rs))

Min(a, b) == IF a <= b THEN a ELSE b

TitleLists(n) == UNION {[1..k -> MergeTitles] : k \in 0..Min(n, MaxRunSongs)}

RunSongs(run, titles) ==
  [k \in DOMAIN titles |-> SongRequest(titles[k], <<>>, RecordSelector(run), k - 1)]

InitMerge ==
  /\ config = create_default
  /\ custom_attributes = <<>>
  /\ history = [fault |-> FALSE, rows |-> <<>>]
  /\ window_handles = <<PageCtx>>
  /\ active = PageCtx
  /\ pc = "collect"
  /\ element_count = 0
  /\ row_index = 0
  /\ title = <<>>
  /\ link_button = NoButton
  /\ calls = <<>>
  /\ youtube_url = <<>>
  /\ songs = <<>>
  /\ click_ret = NoClick
  /\ all_results = <<>>
  /\ merged = <<>>
  /\ outcome = NoOutcome
  /\ NoCoord
  /\ NoMatch
  /\ call_log = <<>>

MergeFrame ==
  UNCHANGED <<config, custom_attributes, history, window_handles, active,
              element_count, row_index, RowVars, songs, merged, outcome, CoordVars, MatchVars, call_log>>

\* result = strategy.extract_songs(driver, selector, config); all_results.append(result)
AppendResult ==
  /\ pc = "collect"
  /\ MergeSize(all_results) + 2 <= MaxMergeSize
  /\ \E run \in StrategyRuns :
       /\ \A k \in DOMAIN all_results :
            <<all_results[k].strategy_used, all_results[k].selector_used>> #
              <<run.strategy, run.selector>>
       /\ \/ all_results' = Append(all_results,
                                   create_failure(FaultText, run.strategy, run.selector))
          \/ \E titles \in TitleLists(MaxMergeSize - MergeSize(all_results) - 2) :
               all_results' = Append(all_results,
                                     create_success(RunSongs(run, titles), run.strategy,
                                                    run.selector, Len(titles)))
  /\ pc' = "collect"
  /\ MergeFrame

\* return all_results
ReturnResults ==
  /\ pc = "collect"
  /\ pc' = "merge"
  /\ UNCHANGED all_results
  /\ MergeFrame

NextMerge ==
  \/ AppendResult
  \/ ReturnResults
  \/ Combine

SpecMerge == InitMerge /\ [][NextMerge]_vars

(***************************************************************************)
(* ElementSelector and the selector loops of the coordinator:              *)
(* extract_songs_comprehensive and extract_songs_best_effort               *)
(***************************************************************************)
MaxSelectors == 2

\* priority of an ElementSelector constructed without one
DefaultSelectorPriority == 1

ElementSelector(sel, priority, is_fallback) ==
  [selector |-> sel, priority |-> priority, is_fallback |-> is_fallback]

create_table_row == ElementSelector( <<"t","r">>, 10, FALSE)

create_youtube_links ==
  ElementSelector( <<"a","[","h","r","e","f","*","=","'","y","o","u","t","u","b","e",".","c","o","m","'","]",","," ","a","[","h","r","e","f","*","=","'","y","o","u","t","u",".","b","e","'","]">>, 8, FALSE)

create_text_elements == ElementSelector( <<"d","i","v",","," ","s","p","a","n",","," ","p",","," ","l","i">>, 1, TRUE)

\* ElementSelector("p"): default priority, not a fallback
PlainSelector == ElementSelector( <<"p">>, DefaultSelectorPriority, FALSE)

SelectorPool ==
  { create_table_row, create_youtube_links, create_text_elements, PlainSelector }

SelectorLists == UNION {[1..n -> SelectorPool] : n \in 0..MaxSelectors}

is_table_row_selector(s) == Contains(Lower(s.selector), <<"t","r">>)

is_youtube_link_selector(s) ==
  \E keyword \in { <<"y","o","u","t","u","b","e">>, <<"y","o","u","t","u",".","b","e">>, <<"h","r","e","f","*","=">> } :
    Contains(Lower(s.selector), keyword)

\* the priority bound of TextParsingExtractionStrategy.can_handle
TextParsingMaxPriority == 2

\* variant: every strategy accepts every selector
can_handle_Always(strategy, s) == TRUE

can_handle(strategy, s) ==
  CASE strategy = "table_row" -> is_table_row_selector(s)
    [] strategy = "youtube_link" -> is_youtube_link_selector(s)
    [] strategy = "general_element" ->
         ~is_table_row_selector(s) /\ ~is_youtube_link_selector(s)
    [] strategy = "text_parsing" ->
         s.is_fallback \/ s.priority <= TextParsingMaxPriority

\* validate_config of every strategy returns True (some log a hint)
validate_config(strategy, cfg) == TRUE

get_priority(strategy) ==
  CASE strategy = "table_row" -> 10
    [] strategy = "youtube_link" -> 8
    [] strategy = "general_element" -> 5
    [] strategy = "text_parsing" -> 1

\* list.sort / sorted with reverse=True on [key, val] pairs: stable, descending
RECURSIVE InsertDescending(_, _)
InsertDescending(x, sorted) ==
  IF sorted = <<>> THEN <<x>>
  ELSE IF Head(sorted).key >= x.key
       THEN <<Head(sorted)>> \o InsertDescending(x, Tail(sorted))
       ELSE <<x>> \o sorted

RECURSIVE SortDescending(_)
SortDescending(xs) ==
  IF xs = <<>> THEN <<>>
  ELSE InsertDescending(xs[Len(xs)], SortDescending(SubSeq(xs, 1, Len(xs) - 1)))

\* self.strategies after __init__
strategies ==
  LET built == <<"table_row", "youtube_link", "general_element", "text_parsing">>
      sorted == SortDescending([k \in DOMAIN built |->
                                  [key |-> get_priority(built[k]), val |-> built[k]]])
  IN [k \in DOMAIN sorted |-> sorted[k].val]

\* variant: the selectors are processed in the order given
sorted_selectors_AsGiven(sels) == sels

sorted_selectors(sels) ==
  LET sorted == SortDescending([k \in DOMAIN sels |->
                                  [key |-> sels[k].priority, val |-> sels[k]]])
  IN [k \in DOMAIN sorted |-> sorted[k].val]

compatible_strategies(s, cfg) ==
  SelectSeq(strategies, LAMBDA st : can_handle(st, s) /\ validate_config(st, cfg))

\* the selector loop still to run: each selector with its compatible strategies
SelectorLoop(sels, cfg) ==
  LET sorted == sorted_selectors(sels)
  IN [k \in DOMAIN sorted |->
        [selector |-> sorted[k], strategies |-> compatible_strategies(sorted[k], cfg)]]

\* selector.selector as the string the strategies write into their Result
RECURSIVE SelectorText(_)
SelectorText(chars) == IF chars = <<>> THEN "" ELSE chars[1] \o SelectorText(Tail(chars))

\* record counts a strategy run may report
SongCounts == {0, 1}

CoordSongs(n, s) ==
  [k \in 1..n |-> SongRequest( <<"H","e","y"," ","J","u","d","e">>, <<>>, SelectorText(s.selector), k - 1)]

\* what strategy.extract_songs(driver, selector, config) can do
RunOutcomes(strategy, s) ==
  {Raise(FaultText), Return(create_failure(FaultText, strategy, SelectorText(s.selector)))} \cup
  {Return(create_success(CoordSongs(n, s), strategy, SelectorText(s.selector), n)) :
     n \in SongCounts}

song_count(result) == Len(result.songs)

DefaultMinSongs == 1

MinSongs(attrs) ==
  IF "min_songs_for_success" \in DOMAIN attrs THEN attrs["min_songs_for_success"]
  ELSE DefaultMinSongs

\* variant: the latest Result always replaces the best one
_is_better_result_Latest(new_result, current_best) == TRUE

\* current_best is <<>> for None
_is_better_result(new_result, current_best) ==
  IF current_best = <<>> THEN new_result.success
  ELSE IF ~current_best[1].success /\ new_result.success THEN TRUE
  ELSE IF ~new_result.success THEN FALSE
  ELSE IF song_count(new_result) > song_count(current_best[1]) THEN TRUE
  ELSE IF song_count(new_result) = song_count(current_best[1])
       THEN strategy_priority(new_result.strategy_used) >
            strategy_priority(current_best[1].strategy_used)
  ELSE FALSE

\* variant: the selector loop never stops early
GoodEnough_Never(best, min_songs) == FALSE

\* best_result and best_result.success and best_result.song_count >= min_songs
GoodEnough(best, min_songs) ==
  best # <<>> /\ best[1].success /\ song_count(best[1]) >= min_songs

InitCoord ==
  /\ config = create_default
  /\ custom_attributes \in {<<>>, ("min_songs_for_success" :> 2)}
  /\ history = [fault |-> FALSE, rows |-> <<>>]
  /\ window_handles = <<PageCtx>>
  /\ active = PageCtx
  /\ pc = "coord_idle"
  /\ element_count = 0
  /\ row_index = 0
  /\ title = <<>>
  /\ link_button = NoButton
  /\ calls = <<>>
  /\ youtube_url = <<>>
  /\ songs = <<>>
  /\ click_ret = NoClick
  /\ all_results = <<>>
  /\ merged = <<>>
  /\ outcome = NoOutcome
  /\ selectors \in SelectorLists
  /\ policy = "none"
  /\ queue = <<>>
  /\ best_result = <<>>
  /\ run_log = <<>>
  /\ NoMatch
  /\ call_log = <<>>

CoordFrame ==
  UNCHANGED <<config, custom_attributes, history, window_handles, active,
              element_count, row_index, RowVars, songs, merged, selectors, MatchVars, call_log>>

\* the entry of run_log for one strategy.extract_songs call
LogEntry(strategy, s, o) ==
  [strategy |-> strategy, selector |-> s, raised |-> o.raised, result |-> o.value]

\* the loop with the first strategy of the first selector done
AfterStrategy(q) == <<[Head(q) EXCEPT !.strategies = Tail(@)]>> \o Tail(q)

\* extract_songs_comprehensive up to the selector loop
ComprehensiveStart ==
  /\ pc = "coord_idle"
  /\ policy' = "comprehensive"
  /\ queue' = SelectorLoop(selectors, config)
  /\ pc' = "scan"
  /\ UNCHANGED <<all_results, outcome, best_result, run_log>>
  /\ CoordFrame

\* one pass of the strategy loop of extract_songs_comprehensive
ComprehensiveRun ==
  /\ pc = "scan"
  /\ policy = "comprehensive"
  /\ queue # <<>>
  /\ Head(queue).strategies # <<>>
  /\ LET s == Head(queue).selector
         strategy == Head(Head(queue).strategies)
     IN \E o \in RunOutcomes(strategy, s) :
          /\ all_results' =
               Append(all_results,
                      IF o.raised
                      THEN create_failure(o.error, strategy, SelectorText(s.selector))
                      ELSE o.value)
          /\ run_log' = Append(run_log, LogEntry(strategy, s, o))
  /\ queue' = AfterStrategy(queue)
  /\ UNCHANGED <<pc, policy, outcome, best_result>>
  /\ CoordFrame

\* the strategies of a selector are exhausted: next selector
ComprehensiveNextSelector ==
  /\ pc = "scan"
  /\ policy = "comprehensive"
  /\ queue # <<>>
  /\ Head(queue).strategies = <<>>
  /\ queue' = Tail(queue)
  /\ UNCHANGED <<pc, policy, all_results, outcome, best_result, run_log>>
  /\ CoordFrame

\* return all_results
ComprehensiveReturn ==
  /\ pc = "scan"
  /\ policy = "comprehensive"
  /\ queue = <<>>
  /\ pc' = "coord_done"
  /\ UNCHANGED <<policy, queue, all_results, outcome, best_result, run_log>>
  /\ CoordFrame

\* extract_songs_best_effort up to the selector loop
BestEffortStart ==
  /\ pc = "coord_idle"
  /\ policy' = "best_effort"
  /\ best_result' = <<>>
  /\ queue' = SelectorLoop(selectors, config)
  /\ pc' = "scan"
  /\ UNCHANGED <<all_results, outcome, run_log>>
  /\ CoordFrame

\* one pass of the strategy loop of extract_songs_best_effort
BestEffortRun ==
  /\ pc = "scan"
  /\ policy = "best_effort"
  /\ queue # <<>>
  /\ Head(queue).strategies # <<>>
  /\ LET s == Head(queue).selector
         strategy == Head(Head(queue).strategies)
         min_songs == MinSongs(custom_attributes)
     IN \E o \in RunOutcomes(strategy, s) :
          /\ run_log' = Append(run_log, LogEntry(strategy, s, o))
          /\ IF o.raised
             THEN /\ best_result' = best_result
                  /\ queue' = AfterStrategy(queue)
             ELSE /\ best_result' = IF _is_better_result(o.value, best_result)
                                    THEN <<o.value>> ELSE best_result
                  /\ queue' = IF o.value.success /\ song_count(o.value) >= min_songs
                              THEN <<[Head(queue) EXCEPT !.strategies = <<>>]>> \o Tail(queue)
                              ELSE AfterStrategy(queue)
  /\ UNCHANGED <<pc, policy, all_results, outcome>>
  /\ CoordFrame

\* after the strategy loop: stop on a good enough best_result, else next selector
BestEffortNextSelector ==
  /\ pc = "scan"
  /\ policy = "best_effort"
  /\ queue # <<>>
  /\ Head(queue).strategies = <<>>
  /\ queue' = IF GoodEnough(best_result, MinSongs(custom_attributes))
              THEN <<>> ELSE Tail(queue)
  /\ UNCHANGED <<pc, policy, all_results, outcome, best_result, run_log>>
  /\ CoordFrame

\* the return of extract_songs_best_effort
BestEffortReturn ==
  /\ pc = "scan"
  /\ policy = "best_effort"
  /\ queue = <<>>
  /\ outcome' = [returned |-> TRUE, raised |-> FALSE,
                 result |-> IF best_result = <<>>
                            THEN create_failure(
                                   <<"N","o"," ","e","x","t","r","a","c","t","i","o","n"," ","s","t","r","a","t","e","g","i","e","s"," ","p","r","o","d","u","c","e","d"," ","r","e","s","u","l","t","s">>,
                                   "coordinator", "multiple")
                            ELSE best_result[1]]
  /\ pc' = "coord_done"
  /\ UNCHANGED <<policy, queue, all_results, best_result, run_log>>
  /\ CoordFrame

NextCoord ==
  \/ ComprehensiveStart
  \/ ComprehensiveRun
  \/ ComprehensiveNextSelector
  \/ ComprehensiveReturn
  \/ BestEffortStart
  \/ BestEffortRun
  \/ BestEffortNextSelector
  \/ BestEffortReturn

SpecCoord == InitCoord /\ [][NextCoord]_vars

(***************************************************************************)
(* Calls of SongMatchingService.titles_match and normalize_title           *)
(***************************************************************************)
MatchTitles ==
  { <<>>,
    <<"H","i">>,
    <<"H","i","c","c","u","p">>,
    <<"L","o","v","e">>,
    <<"A","l","l"," ","Y","o","u"," ","N","e","e","d"," ","I","s"," ","L","o","v","e">>,
    <<"H","e","l","l","o"," ","W","o","r","l","d"," ","S","o","n","g">>,
    <<"H","e","l","l","o"," ","W","o","r","l","d"," ","S","o","n","g","s">>,
    <<"I","m","a","g","i","n","e">>,
    <<"I","m","a","g","i","n","e"," ","(","L","y","r","i","c","s",")"," ","(","O","f","f","i","c","i","a","l"," ","V","i","d","e","o",")">>,
    <<"S","o","n","g"," ","M","/","V"," ","|"," ","L","y","r","i","c","s">>,
    <<"a"," ","b"," ","c"," ","d"," ","e"," ","f"," ","g">>,
    <<"a"," ","b"," ","c"," ","d"," ","e"," ","f"," ","g"," ","h">>,
    <<"a"," ","b"," ","c"," ","d"," ","e"," ","f"," ","g"," ","i"," ","j">>,
    <<"a"," ","b"," ","c"," ","d"," ","e"," ","f"," ","g"," ","h"," ","i"," ","j">>,
    <<"U+266A">>,
    <<"!","?">>,
    <<"\\">> }

InitTitles ==
  /\ config = create_default
  /\ custom_attributes = <<>>
  /\ history = [fault |-> FALSE, rows |-> <<>>]
  /\ window_handles = <<PageCtx>>
  /\ active = PageCtx
  /\ pc = "titles"
  /\ element_count = 0
  /\ row_index = 0
  /\ title = <<>>
  /\ link_button = NoButton
  /\ calls = <<>>
  /\ youtube_url = <<>>
  /\ songs = <<>>
  /\ click_ret = NoClick
  /\ all_results = <<>>
  /\ merged = <<>>
  /\ outcome = NoOutcome
  /\ NoCoord
  /\ title1 \in MatchTitles
  /\ title2 \in MatchTitles
  /\ matched = <<>>
  /\ normalized = <<>>
  /\ call_log = <<>>

TitlesFrame ==
  UNCHANGED <<config, custom_attributes, history, window_handles, active, pc,
              element_count, row_index, RowVars, songs, all_results, merged, outcome,
              CoordVars, title1, title2, call_log>>

\* matching_service.titles_match(title1, title2)
TitlesMatch ==
  /\ pc = "titles"
  /\ matched = <<>>
  /\ matched' = <<titles_match(title1, title2)>>
  /\ UNCHANGED normalized
  /\ TitlesFrame

\* matching_service.normalize_title(title1)
Normalize ==
  /\ pc = "titles"
  /\ normalized = <<>>
  /\ normalized' = <<normalize_title(title1)>>
  /\ UNCHANGED matched
  /\ TitlesFrame

\* matching_service.normalize_title on the result of the first call
NormalizeAgain ==
  /\ pc = "titles"
  /\ Len(normalized) = 1
  /\ normalized' = Append(normalized, normalize_title(normalized[1]))
  /\ UNCHANGED matched
  /\ TitlesFrame

NextTitles ==
  \/ TitlesMatch
  \/ Normalize
  \/ NormalizeAgain

SpecTitles == InitTitles /\ [][NextTitles]_vars

(***************************************************************************)
(* The cascade under every setting of the media toggles                    *)
(***************************************************************************)
ClickConfigs ==
  { [create_default EXCEPT !.mute_audio = m, !.pause_videos = p, !.close_new_tabs = c] :
      m \in BOOLEAN, p \in BOOLEAN, c \in BOOLEAN }

InitClick ==
  /\ config \in ClickConfigs
  /\ custom_attributes = <<>>
  /\ history = [fault |-> FALSE, rows |-> HistoryMatch]
  /\ window_handles = <<PageCtx>>
  /\ active = PageCtx
  /\ pc = "idle"
  /\ element_count = 0
  /\ row_index = 0
  /\ title = <<>>
  /\ link_button = NoButton
  /\ calls = <<>>
  /\ youtube_url = <<>>
  /\ songs = <<>>
  /\ click_ret = NoClick
  /\ all_results = <<>>
  /\ merged = <<>>
  /\ outcome = NoOutcome
  /\ NoCoord
  /\ NoMatch
  /\ call_log = <<>>

SpecClick == InitClick /\ [][Next]_vars

(***************************************************************************)
(* Properties of the click step (Spec)                                     *)
(***************************************************************************)
\* C1: after _extract_via_button_click has returned, the active browsing
\* context is the one that was active before the step, on every exit path
\* and for every Config.
C1_ActiveContextRestored ==
  click_ret.done => active = click_ret.active

\* C2: after _extract_via_button_click has returned, the open browsing
\* contexts are exactly those open before the step: every context it opened
\* has been closed.
C2_OpenedContextsClosed ==
  click_ret.done => window_handles = click_ret.handles

(***************************************************************************)
(* Properties of the URL cascade (Spec)                                    *)
(***************************************************************************)
StepRank(step) ==
  CASE step = "direct" -> 1
    [] step = "js" -> 2
    [] step = "click" -> 3
    [] step = "history" -> 4
    [] step = "search" -> 5

\* C3: the steps of the cascade are invoked in the order direct read,
\* scripted inspection, click simulation, history scan, search URL; the
\* click is never invoked before the scripted inspection of the same row, and
\* the search URL is built only after an enabled history scan has been tried.
C3_StrictStepOrder ==
  /\ \A i, j \in DOMAIN calls : i < j => StepRank(calls[i]) < StepRank(calls[j])
  /\ (calls # <<>> /\ Last(calls) = "search" /\ config.try_history_thumbnails)
       => \E i \in DOMAIN calls : calls[i] = "history"

\* steps 1-3 of the finished cascade yielded no value
NoValueFromButton ==
  /\ pc = "row_end"
  /\ calls # <<>>
  /\ ~(youtube_url # <<>> /\ Last(calls) \in {"direct", "js", "click"})

\* the history region, read from the page, has a matching row with a thumbnail
HistoryYields ==
  /\ config.try_history_thumbnails
  /\ ~history.fault
  /\ active = PageCtx
  /\ HistoryUrl(title, history.rows) # <<>>

\* C4: when steps 1-3 yield no value and the history region has a row that
\* matches the title and carries a thumbnail with a video id, the cascade
\* returns the watch URL built from that id, not the search URL.
C4_HistoryBeforeSearch ==
  (NoValueFromButton /\ HistoryYields) => youtube_url = HistoryUrl(title, history.rows)

C6_AlwaysUsableUrl ==
  (pc = "row_end" /\ calls # <<>>) => youtube_url # <<>>

\* the search URL of the titles that rows of the page can carry
ExpectedSearchUrl(t) ==
  IF t = <<"H","e","y"," ","J","u","d","e">>
  THEN <<"h","t","t","p","s",":","/","/","w","w","w",".","y","o","u","t","u","b","e",".","c","o","m","/","r","e","s","u","l","t","s","?","s","e","a","r","c","h","_","q","u","e","r","y","=","H","e","y","+","J","u","d","e">>
  ELSE <<"h","t","t","p","s",":","/","/","w","w","w",".","y","o","u","t","u","b","e",".","c","o","m","/","r","e","s","u","l","t","s","?","s","e","a","r","c","h","_","q","u","e","r","y","=","I","m","a","g","i","n","e">>

\* C6: for every Config with fallback_to_search enabled the finished
\* cascade has a non-empty URL, and when no earlier step yielded a value it is
\* the search URL: the fixed template followed by the percent-encoded title
\* without its known suffix.
C6_SearchFallbackWhenEnabled ==
  (pc = "row_end" /\ calls # <<>> /\ config.fallback_to_search)
    => /\ youtube_url # <<>>
       /\ Last(calls) = "search" => youtube_url = ExpectedSearchUrl(title)

C6_Witness ==
  /\ pc = "row_end"
  /\ config.fallback_to_search
  /\ title = <<"I","m","a","g","i","n","e"," ","(","O","f","f","i","c","i","a","l"," ","V","i","d","e","o",")">>
  /\ calls = <<"direct", "history", "search">>
  /\ youtube_url = <<"h","t","t","p","s",":","/","/","w","w","w",".","y","o","u","t","u","b","e",".","c","o","m","/","r","e","s","u","l","t","s","?","s","e","a","r","c","h","_","q","u","e","r","y","=","I","m","a","g","i","n","e">>

\* C7: once the direct read of data-url / href of the link button yields a
\* YouTube URL, that URL is the row's URL and no other step of the cascade is
\* invoked for the row.
C7_DirectReadShortCircuits ==
  LET hit(v) == v # NoneVal /\ v # <<>> /\ IsYoutubeUrl(v)
  IN (link_button.found /\ (hit(link_button.data_url) \/ hit(link_button.href)))
       => /\ calls = <<"direct">>
          /\ ~click_ret.done
          /\ pc \notin {"js", "click", "button_search", "history", "search"}
          /\ youtube_url = IF hit(link_button.data_url) THEN link_button.data_url
                           ELSE link_button.href

C7_Witness ==
  /\ pc = "row_end"
  /\ link_button.found
  /\ link_button.data_url = UrlYoutube
  /\ calls = <<"direct">>
  /\ youtube_url = UrlYoutube

(***************************************************************************)
(* Properties of extract_songs (SpecRun)                                   *)
(***************************************************************************)
\* a fault that aborts the whole run: the element query raises, or, for text
\* parsing, a text read while the page text is assembled
RunAborted ==
  \/ outcome.dom.find_fault
  \/ /\ outcome.strategy = "text_parsing"
     /\ \E i \in DOMAIN outcome.dom.elements : outcome.dom.elements[i].fault

\* C8: extract_songs of each of the four strategies returns a Result and never
\* raises, whatever the DOM reads raise; when a fault aborts the run the
\* Result is a failure (success false, no songs, an error message) naming the
\* strategy and the selector.
C8_ExtractSongsNeverRaises ==
  outcome.returned
    => /\ ~outcome.raised
       /\ outcome.result.strategy_used = outcome.strategy
       /\ outcome.result.selector_used = outcome.selector
       /\ RunAborted
            => /\ outcome.result.success = FALSE
               /\ outcome.result.songs = <<>>
               /\ outcome.result.error_message # NoneVal
       /\ ~RunAborted => outcome.result.success = TRUE

C8_Witness ==
  /\ outcome.returned
  /\ outcome.strategy = "text_parsing"
  /\ ~outcome.dom.find_fault
  /\ RunAborted
  /\ ~outcome.raised
  /\ outcome.result.success = FALSE
  /\ outcome.result.error_message = FaultText

(***************************************************************************)
(* Properties of the merge (SpecMerge)                                     *)
(***************************************************************************)
Successful == {a \in DOMAIN all_results : all_results[a].success}

Priority(a) == strategy_priority(all_results[a].strategy_used)

\* the positions <<Result, record>> of all records of successful Results
Records == UNION {{<<a, i>> : i \in DOMAIN all_results[a].songs} : a \in Successful}

RecordAt(p) == all_results[p[1]].songs[p[2]]

Matches(r1, r2) == titles_match(r1.title, r2.title)

\* the same song under two titles in Results of strategies of different rank:
\* p the record of the higher-ranked strategy, q of the lower-ranked one
SameSongPairs ==
  {pq \in Records \X Records :
     /\ Priority(pq[1][1]) > Priority(pq[2][1])
     /\ Matches(RecordAt(pq[1]), RecordAt(pq[2]))}

\* merged records that match the song of the pair
MergedFor(pq) ==
  {k \in DOMAIN merged :
     Matches(merged[k], RecordAt(pq[1])) \/ Matches(merged[k], RecordAt(pq[2]))}

\* C9 as stated: whenever two successful Results of strategies of different
\* rank hold records whose titles match, the merged output has exactly one
\* record for that song and it is a record of the higher-ranked strategy.
C9_OneRecordFromHigherRank ==
  pc = "done" =>
    \A pq \in SameSongPairs :
      /\ Cardinality(MergedFor(pq)) = 1
      /\ \A k \in MergedFor(pq) :
           \E p \in Records : /\ RecordAt(p) = merged[k]
                               /\ Priority(p[1]) >= Priority(pq[1][1])

\* no third record of a successful Result matches either title of the pair
OnlyThesePair(pq) ==
  \A p \in Records \ {pq[1], pq[2]} :
    /\ ~Matches(RecordAt(p), RecordAt(pq[1]))
    /\ ~Matches(RecordAt(p), RecordAt(pq[2]))

\* C9: when two successful Results of strategies of different rank hold
\* records whose titles match, and no other collected record matches either
\* of the two, the merged output has exactly one record for that song and it
\* is the record of the higher-ranked strategy, whatever the order in which
\* the Results were produced.
C9_HigherRankWinsWhenUnambiguous ==
  pc = "done" =>
    \A pq \in SameSongPairs :
      OnlyThesePair(pq)
        => /\ Cardinality(MergedFor(pq)) = 1
           /\ \A k \in MergedFor(pq) : merged[k] = RecordAt(pq[1])

\* the lower-ranked Result was produced first, the titles differ by a suffix
C9_Witness ==
  /\ pc = "done"
  /\ \E pq \in SameSongPairs :
       /\ OnlyThesePair(pq)
       /\ pq[2][1] < pq[1][1]
       /\ RecordAt(pq[1]).title = <<"a"," ","b"," ","c"," ","d"," ","e"," ","(","O","f","f","i","c","i","a","l"," ","V","i","d","e","o",")">>
       /\ RecordAt(pq[2]).title = <<"a"," ","b"," ","c"," ","d"," ","e">>
       /\ \E k \in DOMAIN merged : merged[k] = RecordAt(pq[1])

\* C10: no two records of the merged output match each other, and every
\* record of a successful Result that is not in the output matches a record
\* that is.
C10_MergedPairwiseDistinct ==
  pc = "done" =>
    /\ \A k1, k2 \in DOMAIN merged : k1 # k2 => ~Matches(merged[k1], merged[k2])
    /\ \A p \in Records :
         RecordAt(p) \notin Range(merged)
           => \E k \in DOMAIN merged : Matches(RecordAt(p), merged[k])

\* two records kept and one dropped although its title equals no kept title
C10_Witness ==
  /\ pc = "done"
  /\ Len(merged) >= 2
  /\ \E p \in Records :
       /\ RecordAt(p) \notin Range(merged)
       /\ \A k \in DOMAIN merged : merged[k].title # RecordAt(p).title

(***************************************************************************)
(* Properties of the coordinator policies (SpecCoord)                      *)
(***************************************************************************)
\* a run that returned success with at least min_songs records
GoodRun(entry) ==
  /\ ~entry.raised
  /\ entry.result.success
  /\ song_count(entry.result) >= MinSongs(custom_attributes)

\* C11: in extract_songs_best_effort, once a strategy run has returned success
\* with at least min_songs_for_success records (default 1), no further
\* strategy.extract_songs call is made in that policy call.
C11_StopsAfterGoodRun ==
  policy = "best_effort" =>
    \A k \in DOMAIN run_log : GoodRun(run_log[k]) => k = Len(run_log)

\* two selectors given, the first run was good enough and the call returned
C11_Witness ==
  /\ policy = "best_effort"
  /\ pc = "coord_done"
  /\ Len(selectors) = 2
  /\ Len(run_log) = 1
  /\ GoodRun(run_log[1])


\* some run of the scan returned a success Result
AnyRunSucceeded == \E k \in DOMAIN run_log : ~run_log[k].raised /\ run_log[k].result.success

\* C12: extract_songs_best_effort returns a failure Result if and only if no
\* strategy run of the scan returned a success; when none succeeded the Result
\* is the canonical failure (strategy "coordinator", selector "multiple", no
\* records).
C12_FailureIffNoSuccess ==
  (policy = "best_effort" /\ pc = "coord_done") =>
    /\ outcome.result.success <=> AnyRunSucceeded
    /\ ~AnyRunSucceeded =>
         /\ outcome.result.strategy_used = "coordinator"
         /\ outcome.result.selector_used = "multiple"
         /\ song_count(outcome.result) = 0
         /\ outcome.result.error_message # NoneVal

\* an empty success, then a failure Result, then a fault: success is returned
C12_Witness ==
  /\ policy = "best_effort"
  /\ pc = "coord_done"
  /\ Len(run_log) = 3
  /\ ~run_log[1].raised /\ run_log[1].result.success /\ song_count(run_log[1].result) = 0
  /\ ~run_log[2].raised /\ ~run_log[2].result.success
  /\ run_log[3].raised
  /\ outcome.result.success


StrategyNames == {"table_row", "youtube_link", "general_element", "text_parsing"}

\* the strategies whose can_handle accepts each selector of the pool
Handlers == [s \in SelectorPool |-> {st \in StrategyNames : can_handle(st, s)}]

\* the strategies that can run on selector s under the Config
Compatible(s) == {st \in Handlers[s] : validate_config(st, config)}

\* the runs logged for strategy st on selector s
RunsOf(s, st) == {k \in DOMAIN run_log : run_log[k].selector = s /\ run_log[k].strategy = st}

\* run k + 1 follows run k in descending order: the next lower strategy of the
\* same selector, or the top strategy of the next selector after the last
\* strategy of a selector of at least the same priority
InOrder(a, b) ==
  \/ /\ a.selector = b.selector
     /\ get_priority(a.strategy) > get_priority(b.strategy)
  \/ /\ a.selector.priority >= b.selector.priority
     /\ \A st \in Compatible(a.selector) : get_priority(st) >= get_priority(a.strategy)
     /\ \A st \in Compatible(b.selector) : get_priority(st) <= get_priority(b.strategy)

\* C13: extract_songs_comprehensive returns exactly one Result for each
\* (selector, strategy) pair whose strategy can handle the selector and
\* accepts the Config, ordered by descending selector priority and, within a
\* selector, descending strategy priority; a run that raised contributes a
\* failure Result for its pair and every returned Result is kept as produced.
C13_OneResultPerPairInOrder ==
  (policy = "comprehensive" /\ pc = "coord_done") =>
    /\ Len(all_results) = Len(run_log)
    /\ \A s \in SelectorPool, st \in StrategyNames :
         Cardinality(RunsOf(s, st)) =
           IF st \in Compatible(s)
           THEN Cardinality({i \in DOMAIN selectors : selectors[i] = s}) ELSE 0
    /\ \A k \in 1..(Len(run_log) - 1) : InOrder(run_log[k], run_log[k + 1])
    /\ \A k \in DOMAIN run_log :
         /\ all_results[k].strategy_used = run_log[k].strategy
         /\ all_results[k].selector_used = SelectorText(run_log[k].selector.selector)
         /\ IF run_log[k].raised
            THEN ~all_results[k].success /\ all_results[k].error_message # NoneVal
            ELSE all_results[k] = run_log[k].result

\* the lower-priority selector was given first; one run raised, one returned
\* a failure Result and one an empty success: three Results, table_row first
C13_Witness ==
  /\ policy = "comprehensive"
  /\ pc = "coord_done"
  /\ selectors = <<create_text_elements, create_table_row>>
  /\ Len(all_results) = 3
  /\ all_results[1].strategy_used = "table_row"
  /\ run_log[1].raised
  /\ ~run_log[2].raised /\ ~run_log[2].result.success
  /\ all_results[3].success /\ song_count(all_results[3]) = 0


TextParsingRuns == {k \in DOMAIN run_log : run_log[k].strategy = "text_parsing"}

\* C20 as stated: the policies run the text_parsing strategy only on
\* selectors whose is_fallback flag is set.
C20_TextParsingOnlyOnFallback ==
  \A k \in TextParsingRuns : run_log[k].selector.is_fallback

\* C20: the policies run the text_parsing strategy only on selectors that are
\* flagged as fallback or whose priority is at most 2, and the comprehensive
\* scan runs it on every such selector.
C20_TextParsingOnFallbackOrLowPriority ==
  /\ \A k \in TextParsingRuns :
       run_log[k].selector.is_fallback \/ run_log[k].selector.priority <= 2
  /\ (policy = "comprehensive" /\ pc = "coord_done") =>
       \A i \in DOMAIN selectors :
         (selectors[i].is_fallback \/ selectors[i].priority <= 2)
           => \E k \in TextParsingRuns : run_log[k].selector = selectors[i]

\* text_parsing ran on ElementSelector("p"), which is not flagged as fallback
C20_Witness ==
  \E k \in TextParsingRuns :
    /\ run_log[k].selector = PlainSelector
    /\ ~run_log[k].selector.is_fallback


(***************************************************************************)
(* Properties of SongMatchingService (SpecTitles)                          *)
(***************************************************************************)
Norm1 == normalize_title(title1)

Norm2 == normalize_title(title2)

OneContainsOther == Contains(Norm2, Norm1) \/ Contains(Norm1, Norm2)

ShorterLen == IF Len(Norm1) <= Len(Norm2) THEN Len(Norm1) ELSE Len(Norm2)

WordOverlap == Cardinality(Range(Split(Norm1)) \cap Range(Split(Norm2)))

WordTotal == Cardinality(Range(Split(Norm1)) \cup Range(Split(Norm2)))

\* C14: when one normalized title contains the other and the shorter of the
\* two normalized strings has at most 10 characters, titles_match is true only
\* if the normalized strings are equal or their word-set Jaccard similarity
\* exceeds 7/10.
C14_ShortContainmentNeedsJaccard ==
  (matched = <<TRUE>> /\ OneContainsOther /\ ShorterLen <= 10) =>
    (Norm1 = Norm2 \/ 10 * WordOverlap > 7 * WordTotal)


\* C15 as stated: two titles whose normalized word sets have a Jaccard ratio
\* of exactly 7/10 never match.
C15_ExactlySevenTenthsNeverMatches ==
  (matched # <<>> /\ WordTotal > 0 /\ 10 * WordOverlap = 7 * WordTotal) =>
    matched = <<FALSE>>

\* C15: two titles whose normalized word sets have a Jaccard ratio of exactly
\* 7/10 do not match unless one normalized string contains the other; two
\* titles whose ratio is strictly greater than 7/10 match.
C15_JaccardBoundary ==
  matched # <<>> =>
    /\ (WordTotal > 0 /\ 10 * WordOverlap = 7 * WordTotal /\ ~OneContainsOther)
         => matched = <<FALSE>>
    /\ (WordTotal > 0 /\ 10 * WordOverlap > 7 * WordTotal) => matched = <<TRUE>>

\* 8 and 9 words, 7 of them shared, neither title inside the other: no match
C15_Witness ==
  /\ title1 = <<"a"," ","b"," ","c"," ","d"," ","e"," ","f"," ","g"," ","h">>
  /\ title2 = <<"a"," ","b"," ","c"," ","d"," ","e"," ","f"," ","g"," ","i"," ","j">>
  /\ WordOverlap = 7
  /\ WordTotal = 10
  /\ matched = <<FALSE>>

\* C16: normalize_title is idempotent: normalizing its own result gives the
\* same string, for titles ending in one or several of the noise suffixes too.
C16_NormalizeIdempotent ==
  Len(normalized) = 2 => normalized[2] = normalized[1]

\* a title ending in two suffixes: the first call strips one, the second none
C16_Witness ==
  /\ title1 = <<"I","m","a","g","i","n","e"," ","(","L","y","r","i","c","s",")"," ","(","O","f","f","i","c","i","a","l"," ","V","i","d","e","o",")">>
  /\ normalized = << <<"i","m","a","g","i","n","e"," ","l","y","r","i","c","s">>, <<"i","m","a","g","i","n","e"," ","l","y","r","i","c","s">> >>


(***************************************************************************)
(* Properties of the records of a strategy run (SpecRun)                   *)
(***************************************************************************)
\* C17: every record of a success Result of a strategy has a title whose
\* length is within [min_title_length, max_title_length] and that is_ui_text
\* does not classify as interface text.
C17_RecordsPassTitleFilter ==
  (outcome.returned /\ ~outcome.raised /\ outcome.result.success) =>
    \A k \in DOMAIN outcome.result.songs :
      LET t == outcome.result.songs[k].title
      IN /\ Len(t) >= config.min_title_length
         /\ Len(t) <= config.max_title_length
         /\ ~is_ui_text(t)


(***************************************************************************)
(* Properties of the Results a policy hands out (SpecCoord)                *)
(***************************************************************************)
\* the Results the policy call has collected or returned
CreatedResults ==
  Range(all_results) \cup
  (IF outcome.returned THEN {outcome.result} ELSE {}) \cup
  {best_result[k] : k \in DOMAIN best_result}

C19_NoRunWithInvalidThresholds ==
  outcome.returned =>
    /\ config.min_title_length <= config.max_title_length
    /\ config.min_title_length >= 0
    /\ config.max_title_length >= 0


\* the order of extract_songs_best_effort: a success beats a failure, then the
\* higher record count, then the higher strategy priority
RankOf(name) ==
  CASE name = "table_row" -> 10
    [] name = "youtube_link" -> 8
    [] name = "general_element" -> 5
    [] name = "text_parsing" -> 1
    [] OTHER -> 0

StrictlyBetter(a, b) ==
  \/ a.success /\ ~b.success
  \/ /\ a.success
     /\ b.success
     /\ \/ song_count(a) > song_count(b)
        \/ /\ song_count(a) = song_count(b)
           /\ RankOf(a.strategy_used) > RankOf(b.strategy_used)

\* C21: the Result returned by extract_songs_best_effort is maximal among the
\* Results the strategy runs of the scan returned: none of them is strictly
\* better than it, and when a run succeeded it is one of them.
C21_ReturnedResultIsMaximal ==
  (policy = "best_effort" /\ pc = "coord_done") =>
    /\ \A k \in DOMAIN run_log :
         ~run_log[k].raised => ~StrictlyBetter(run_log[k].result, outcome.result)
    /\ AnyRunSucceeded =>
         \E k \in DOMAIN run_log : ~run_log[k].raised /\ run_log[k].result = outcome.result

\* two successes with one record each, the later one from the strategy of
\* higher priority: the later one is returned
C21_Witness ==
  /\ policy = "best_effort"
  /\ pc = "coord_done"
  /\ \E j, k \in DOMAIN run_log :
       /\ j < k
       /\ ~run_log[j].raised /\ ~run_log[k].raised
       /\ run_log[j].result.success /\ run_log[k].result.success
       /\ song_count(run_log[j].result) = 1
       /\ song_count(run_log[k].result) = 1
       /\ RankOf(run_log[k].strategy) > RankOf(run_log[j].strategy)
       /\ outcome.result = run_log[k].result


\* the run of outcome.strategy on a DOM that holds only the rows that were
\* still there when they were accessed
RunOnRemaining ==
  LET dom == [outcome.dom EXCEPT !.elements = SubSeq(@, 1, outcome.dom.remaining)]
  IN IF outcome.strategy = "table_row"
     THEN TableRowExtractSongs(dom, outcome.selector, config)
     ELSE GeneralElementExtractSongs(dom, outcome.selector, config)

\* C22: in a robust run of table_row or general_element over a collection that
\* shrinks during the run, the rows that no longer exist are skipped: the run
\* returns a success Result with the records of the rows that were read, and
\* its element count is the count found at the start of the run.
C22_ShrunkRowsSkipped ==
  ( /\ outcome.returned
    /\ outcome.strategy \in {"table_row", "general_element"}
    /\ config.use_robust_finding
    /\ ~outcome.dom.find_fault ) =>
    /\ ~outcome.raised
    /\ outcome.result.success
    /\ outcome.result.element_count = Len(outcome.dom.elements)
    /\ \A k \in DOMAIN outcome.result.songs :
         outcome.result.songs[k].element_index < outcome.dom.remaining
    /\ outcome.result.songs = RunOnRemaining.value.songs

\* two rows with a title were found, one was gone when it was accessed
C22_Witness ==
  /\ outcome.returned
  /\ outcome.strategy = "table_row"
  /\ config.use_robust_finding
  /\ Len(outcome.dom.elements) = 2
  /\ outcome.dom.remaining = 1
  /\ ~outcome.dom.elements[2].fault
  /\ outcome.dom.elements[2].text = <<"I","m","a","g","i","n","e">>
  /\ outcome.result.success
  /\ Len(outcome.result.songs) = 1
  /\ outcome.result.element_count = 2


(***************************************************************************)
(* Properties of the opened context (SpecClick)                            *)
(***************************************************************************)
\* position of the first occurrence of call x in the log, 0 when absent
LogIndex(x) ==
  IF \E i \in DOMAIN click_ret.log : click_ret.log[i] = x
  THEN CHOOSE i \in DOMAIN click_ret.log :
         /\ click_ret.log[i] = x
         /\ \A j \in DOMAIN click_ret.log : click_ret.log[j] = x => i <= j
  ELSE 0

C24_CapRespected ==
  ( /\ outcome.returned
    /\ ~outcome.raised
    /\ outcome.result.success
    /\ config.max_songs_per_strategy > 0 ) =>
    Len(outcome.result.songs) <= config.max_songs_per_strategy


(***************************************************************************)
(* Properties of the text-parsing run (SpecRun)                            *)
(***************************************************************************)
\* the lines of page_text of the run: the non-blank texts of the elements
RunLines ==
  SelectSeq([i \in DOMAIN outcome.dom.elements |-> outcome.dom.elements[i].text],
            LAMBDA t : Strip(t) # <<>>)

TextParsingSucceeded ==
  /\ outcome.returned
  /\ outcome.strategy = "text_parsing"
  /\ ~outcome.raised
  /\ outcome.result.success

\* the line passes the filters of _parse_text_for_songs
AcceptedLine(line) ==
  /\ _is_potential_song_line(Strip(line), config)
  /\ ~RejectCleaned(CleanedTitle(Strip(line), config), config)

\* C25 (as stated): no two records of a text-parsing Result have titles with
\* the same normalize_title value.
C25_DistinctNormalizedTitles ==
  TextParsingSucceeded =>
    \A a, b \in DOMAIN outcome.result.songs :
      a # b => normalize_title(outcome.result.songs[a].title)
                 # normalize_title(outcome.result.songs[b].title)

\* C25: no two records of a text-parsing Result have titles with the same
\* lower-cased text, and each record is the first accepted line with its
\* lower-cased cleaned text.
C25_DistinctLowerCasedTitles ==
  TextParsingSucceeded =>
    /\ \A a, b \in DOMAIN outcome.result.songs :
         a # b => Lower(outcome.result.songs[a].title)
                    # Lower(outcome.result.songs[b].title)
    /\ \A a \in DOMAIN outcome.result.songs :
         LET j == outcome.result.songs[a].element_index + 1
         IN /\ j \in DOMAIN RunLines
            /\ outcome.result.songs[a].title = CleanedTitle(Strip(RunLines[j]), config)
            /\ \A i \in 1..(j - 1) :
                 AcceptedLine(RunLines[i]) =>
                   Lower(CleanedTitle(Strip(RunLines[i]), config))
                     # Lower(outcome.result.songs[a].title)

\* the same line twice: one record, that of the first line
C25_Witness ==
  /\ TextParsingSucceeded
  /\ config.max_songs_per_strategy = NoLimit
  /\ Len(RunLines) = 2
  /\ RunLines[1] = <<"I","m","a","g","i","n","e">>
  /\ RunLines[2] = <<"I","m","a","g","i","n","e">>
  /\ Len(outcome.result.songs) = 1
  /\ outcome.result.songs[1].element_index = 0


\* what the per-element extractor of the run's strategy gave for each element
RunInfos ==
  [i \in DOMAIN outcome.dom.elements |->
     IF outcome.strategy = "table_row"
     THEN RobustRow(i, outcome.dom, config, TableRowInfo(outcome.dom.elements[i], config))
     ELSE IF outcome.strategy = "youtube_link"
     THEN YouTubeLinkInfo(outcome.dom.elements[i], config)
     ELSE RobustRow(i, outcome.dom, config, GeneralElementInfo(outcome.dom.elements[i], config))]

\* constructing the Record from the dict info raises ValueError
ValidationFault(info) == info.some /\ Strip(info.title) = <<>>

\* a Record can be constructed from the dict info
Constructible(info) == info.some /\ Strip(info.title) # <<>>

\* C26: a Record validation fault (empty title after trim) does not abort a
\* strategy run: the element is skipped, every other element is processed, and
\* the run returns a success Result with the remaining records in element
\* order.
C26_ValidationFaultSkipsElement ==
  ( /\ outcome.returned
    /\ outcome.strategy \in {"table_row", "youtube_link", "general_element"}
    /\ ~outcome.dom.find_fault ) =>
    LET infos == RunInfos
        recs == outcome.result.songs
    IN /\ ~outcome.raised
       /\ outcome.result.success
       /\ \A k \in DOMAIN recs :
            LET i == recs[k].element_index + 1
            IN /\ i \in DOMAIN infos
               /\ Constructible(infos[i])
               /\ recs[k].title = Strip(infos[i].title)
               /\ recs[k].youtube_url = infos[i].url
       /\ \A k \in DOMAIN recs : \A l \in DOMAIN recs :
            k < l => recs[k].element_index < recs[l].element_index
       /\ config.max_songs_per_strategy = NoLimit =>
            \A i \in DOMAIN infos :
              Constructible(infos[i]) =>
                \E k \in DOMAIN recs : recs[k].element_index = i - 1

\* the first row's title is empty after cleaning, the second row is recorded
C26_Witness ==
  /\ outcome.returned
  /\ outcome.strategy = "table_row"
  /\ ~outcome.raised
  /\ Len(outcome.dom.elements) = 2
  /\ ValidationFault(RunInfos[1])
  /\ Constructible(RunInfos[2])
  /\ outcome.result.success
  /\ Len(outcome.result.songs) = 1
  /\ outcome.result.songs[1].element_index = 1
  /\ outcome.result.songs[1].title = <<"I","m","a","g","i","n","e">>


\* the run of outcome.strategy on the same DOM and selector with
\* use_robust_finding switched
OtherModeRun ==
  LET cfg == [config EXCEPT !.use_robust_finding = ~@]
  IN IF outcome.strategy = "table_row"
     THEN TableRowExtractSongs(outcome.dom, outcome.selector, cfg)
     ELSE GeneralElementExtractSongs(outcome.dom, outcome.selector, cfg)

\* C30: on a DOM that does not change during the run, a table_row or
\* general_element run returns the same list of records with
\* use_robust_finding enabled as with it disabled.
C30_RobustEqualsSimple ==
  ( /\ outcome.returned
    /\ outcome.strategy \in {"table_row", "general_element"}
    /\ outcome.dom.remaining = Len(outcome.dom.elements) ) =>
    outcome.result.songs = OtherModeRun.value.songs


(***************************************************************************)
(* Properties of the Result of extract_songs_deduplicated (SpecMerge)      *)
(***************************************************************************)
\* C28: extract_songs_deduplicated (and extract_songs_optimized, which hands
\* its Result on) returns a Result with success = TRUE whatever the runs gave:
\* when every run failed or no strategy ran, the Result is a success with an
\* empty song list, the failures show in metadata failed_results only, and
\* successful_results + failed_results = total_results.
C28_DeduplicatedAlwaysSucceeds ==
  pc = "done" =>
    /\ outcome.returned
    /\ ~outcome.raised
    /\ outcome.result.success = TRUE
    /\ outcome.result.error_message = NoneVal
    /\ outcome.result.warnings = <<>>
    /\ outcome.result.songs = merged
    /\ Successful = {} => outcome.result.songs = <<>>
    /\ outcome.result.metadata.total_results = Len(all_results)
    /\ outcome.result.metadata.failed_results =
         Cardinality(DOMAIN all_results \ Successful)
    /\ outcome.result.metadata.successful_results
         + outcome.result.metadata.failed_results
           = outcome.result.metadata.total_results

\* every run failed: a success Result without songs that counts the failures
C28_Witness ==
  /\ pc = "done"
  /\ Len(all_results) = 2
  /\ Successful = {}
  /\ outcome.result.success = TRUE
  /\ outcome.result.songs = <<>>
  /\ outcome.result.metadata.failed_results = 2

\* no strategy was compatible: a success Result over no run at all
C28_WitnessNoRun ==
  /\ pc = "done"
  /\ all_results = <<>>
  /\ outcome.result.success = TRUE
  /\ outcome.result.metadata.total_results = 0


(***************************************************************************)
(* Titles without letters or digits (SpecTitles)                           *)
(***************************************************************************)
\* the title has no character of [a-z0-9] after lowercasing
NoLetterOrDigit(t) ==
  \A i \in 1..Len(t) : Lower(t)[i] \notin LowerLetters \cup Digits

\* C29: titles_match(a, b) is TRUE whenever normalize_title(a) = normalize_title(b),
\* both empty included, and any two titles that have no character of [a-z0-9]
\* after lowercasing match one another.
C29_SymbolTitlesMatch ==
  Len(matched) = 1 =>
    /\ normalize_title(title1) = normalize_title(title2) => matched[1] = TRUE
    /\ (NoLetterOrDigit(title1) /\ NoLetterOrDigit(title2)) => matched[1] = TRUE

\* titles_match is TRUE whenever the normalized titles are equal
C29_EqualNormalizedTitlesMatch ==
  (Len(matched) = 1 /\ normalize_title(title1) = normalize_title(title2))
    => matched[1] = TRUE


(***************************************************************************)
(* Properties of repeated calls with one ExtractionConfig (SpecRepeat)     *)
(***************************************************************************)
\* the calls of extract_songs_optimized made so far
OptimizedCalls == {k \in DOMAIN call_log : call_log[k].policy = "optimized"}

\* the table passed to the latest call of extract_songs_optimized
LatestTable ==
  call_log[CHOOSE k \in OptimizedCalls : \A l \in OptimizedCalls : l <= k].existing_songs_with_urls

\* a call of another policy is running after a call of extract_songs_optimized
LaterPlainCall ==
  /\ Len(call_log) >= 2
  /\ Last(call_log).policy # "optimized"
  /\ OptimizedCalls # {}

=============================================================================
